---- MODULE Spec2Model ----
(***************************************************************************)
(* A model of the blueprint plan pipeline: the Plan data structure         *)
(* (add_op, compute_levels), the PlanOptimizer (constant folding and dead  *)
(* code elimination), the PlanValidator, the approval Policy, the         *)
(* interpreter's OpCache and input hash, the CompiledPlan byte format and  *)
(* the generator's lowering of values to SchemaValue.                      *)
(*                                                                         *)
(* crates/common/src/op.rs (OpKind, ValueRef, RecordedValue and their      *)
(* helper methods) is not among the source files; the helpers used by the  *)
(* code that is present (collect_value_refs, collect_op_refs,              *)
(* referenced_op, can_fold, requires_approval) are modelled from the       *)
(* written specification and from the way the present code uses them.      *)
(***************************************************************************)
EXTENDS Integers, Sequences, FiniteSets, TLC

VARIABLES
    ops,        \* Plan.ops: the plan's ops, in insertion order
    next_id,    \* Plan.next_id
    phase,      \* "build" while ops are added, "optimized" after optimize
    orig,       \* the plan as it was before the last optimize or remove_ops
    level,      \* the OptLevel the optimizer ran with ("NotRun" before)
    policy,     \* the Policy given to validate / Policy::check
    report,     \* the ValidationResult of the last validate call
    decision,   \* the last Policy::check call: [action, result]
    cache,      \* OpCache.cache: set of [op, hash, value] entries (keyed layer)
    value_cache,\* OpCache.value_cache: set of [op, value] entries (latest layer)
    inserted,   \* history: every (op, hash) pair ever passed to insert
    last,       \* the last OpCache call and its arguments
    issued,     \* history: the ids add_op has returned, in call order
    hashed,     \* history: the cache lookups of the consumer op's executions
    calls,      \* the concurrent OpCache::insert calls: each thread's position
    pure        \* the last call of a function on values: [fn, input, output]

vars == <<ops, next_id, phase, orig, level, policy, report, decision,
          cache, value_cache, inserted, last, issued, hashed, calls, pure>>

planVars == <<ops, next_id, phase, orig, level>>
policyVars == <<policy, report, decision>>
cacheVars == <<cache, value_cache, inserted, last, calls>>
callVars == <<hashed, pure>>

----------------------------------------------------------------------------
(* Bounds of the model.                                                    *)

\* the largest number of ops a plan is built with
MaxOps == 3

\* the largest number of ops of a plan whose levels are computed
MaxLevelOps == 4

\* the number of threads that call insert on one OpCache
MaxThreads == 2

\* the largest number of ops of a plan validated against a policy
MaxPolicyOps == 2

\* the largest number of distinct (op, hash) keys inserted in a run
MaxInserts == 3

\* the number of distinct lookups the consumer op's executions make
MaxLookups == 3

\* the largest number of ops of a plan that is compiled
MaxCompiledOps == 2

\* the largest number of items of a list, tuple or dict that is lowered
MaxItems == 2

\* the largest length of a string that is expanded against the environment
MaxLen == 3

\* the width in bits of the integers that are folded, in place of the 64
\* of i64
IntBits == 4

----------------------------------------------------------------------------
(* Generic helpers on sequences.                                           *)

Range(s) == {s[i] : i \in 1..Len(s)}

Contains(s, x) == \E i \in 1..Len(s) : s[i] = x

\* IndexSet insertion: x appended unless already present
IndexSetInsert(s, x) == IF Contains(s, x) THEN s ELSE Append(s, x)

RECURSIVE IndexSetExtend(_, _)
IndexSetExtend(s, xs) ==
    IF xs = <<>> THEN s
    ELSE IndexSetExtend(IndexSetInsert(s, Head(xs)), Tail(xs))

\* insertion of x into an ascending sequence, after any equal element (stable)
RECURSIVE InsertSorted(_, _)
InsertSorted(s, x) ==
    IF s = <<>> THEN <<x>>
    ELSE IF x < Head(s) THEN <<x>> \o s
         ELSE <<Head(s)>> \o InsertSorted(Tail(s), x)

\* sort_by_key as it would be if it left the level in the order the loop
\* pushed the ids
SortById_AsPushed(s) == s

\* current_level.sort_by_key(|id| id.0)
RECURSIVE SortById(_)
SortById(s) ==
    IF s = <<>> THEN <<>>
    ELSE InsertSorted(SortById(Tail(s)), Head(s))

----------------------------------------------------------------------------
(* RecordedValue, ValueRef and OpKind (op.rs).  Every value is a record    *)
(* of one shape so that any two can be compared.                           *)

\* a String is its sequence of characters, each a one-character string
NoneV == [ty |-> "None", n |-> 0, items |-> <<>>, s |-> <<>>]
IntV(i) == [ty |-> "Int", n |-> i, items |-> <<>>, s |-> <<>>]
ListV(xs) == [ty |-> "List", n |-> 0, items |-> xs, s |-> <<>>]
StrV(str) == [ty |-> "String", n |-> 0, items |-> <<>>, s |-> str]

\* ValueRef::Literal(v)
Lit(v) == [tag |-> "Literal", val |-> v, op |-> 0, path |-> <<>>]
\* ValueRef::OpOutput { op, path }; a path is a sequence of Accessor::Index
Out(o, p) == [tag |-> "OpOutput", val |-> NoneV, op |-> o, path |-> p]

\* ValueRef::referenced_op: the op of an OpOutput, nothing otherwise
referenced_op(r) == IF r.tag = "OpOutput" THEN <<r.op>> ELSE <<>>

\* An OpKind: its name, its ValueRef operands in field order, the op ids it
\* names directly (After's dependency and value, AtLeast's ops), AtLeast's
\* count, and the ops of the SubPlan a ForEach carries as its body.
KindWith(name, refs, op_refs, count) ==
    [name |-> name, refs |-> refs, op_refs |-> op_refs, count |-> count,
     body |-> <<>>]

Kind(name, refs) == KindWith(name, refs, <<>>, 0)

\* OpKind::collect_value_refs
collect_value_refs(kind) == kind.refs

\* OpKind::collect_op_refs
collect_op_refs(kind) == kind.op_refs

\* OpKind::After { dependency, value }
After(d, v) == KindWith("After", <<>>, <<d, v>>, 0)

\* OpKind::AtLeast { ops, count }
AtLeast(ids, count) == KindWith("AtLeast", <<>>, ids, count)

Op(id, kind, inputs) == [id |-> id, kind |-> kind, inputs |-> inputs]

\* OpKind::ForEach { items, item_name, body, parallel }: body is the op list
\* of the SubPlan, with local ids
ForEach(items, body) ==
    [KindWith("ForEach", <<items>>, <<>>, 0) EXCEPT !.body = body]

OpIds(plan) == {plan[i].id : i \in 1..Len(plan)}

\* Plan::get_op: the first op with this id (the guard is that one exists)
get_op(plan, id) ==
    plan[CHOOSE i \in 1..Len(plan) :
            plan[i].id = id /\ \A j \in 1..(i - 1) : plan[j].id # id]

----------------------------------------------------------------------------
(* Plan::add_op and Plan::compute_inputs (plan.rs).                        *)

RECURSIVE RefOps(_)
RefOps(refs) ==
    IF refs = <<>> THEN <<>>
    ELSE referenced_op(Head(refs)) \o RefOps(Tail(refs))

compute_inputs_NoDedup(kind) ==
    RefOps(collect_value_refs(kind)) \o collect_op_refs(kind)

compute_inputs(kind) ==
    IndexSetExtend(IndexSetExtend(<<>>, RefOps(collect_value_refs(kind))),
                   collect_op_refs(kind))

InjectAfter_NoContainsCheck(plan, kind) ==
    IF kind.name = "After" /\ kind.op_refs[2] \in OpIds(plan)
    THEN LET i == CHOOSE k \in 1..Len(plan) : plan[k].id = kind.op_refs[2]
         IN  [plan EXCEPT ![i].inputs = Append(@, kind.op_refs[1])]
    ELSE plan

\* the After branch of add_op: the first op whose id is `value` gets
\* `dependency` pushed onto its inputs unless it already holds it
InjectAfter(plan, kind) ==
    IF kind.name = "After" /\ kind.op_refs[2] \in OpIds(plan)
    THEN LET d == kind.op_refs[1]
             v == kind.op_refs[2]
             i == CHOOSE k \in 1..Len(plan) :
                     plan[k].id = v /\ \A j \in 1..(k - 1) : plan[j].id # v
         IN  IF Contains(plan[i].inputs, d) THEN plan
             ELSE [plan EXCEPT ![i].inputs = Append(@, d)]
    ELSE plan

\* the plan's ops after add_op(kind) with next_id = id
add_op(plan, id, kind) ==
    Append(InjectAfter(plan, kind), Op(id, kind, compute_inputs(kind)))

\* Plan::remove_ops; should_remove is given as the set of op ids it holds
\* for (both callers test the op's id against a table)
remove_ops(plan, should_remove) ==
    LET Keep(op) == op.id \notin should_remove IN SelectSeq(plan, Keep)

----------------------------------------------------------------------------
(* ExecutionContext (context.rs).  env_vars is a set of [key, value]       *)
(* entries with distinct keys; a HashMap is iterated in some order of its  *)
(* entries, which the program does not choose.                             *)

\* str::replace(pattern, to): every non-overlapping match, left to right
RECURSIVE StrReplace(_, _, _)
StrReplace(str, pattern, to) ==
    IF Len(str) < Len(pattern) \/ str = <<>> THEN str
    ELSE IF SubSeq(str, 1, Len(pattern)) = pattern
         THEN to \o StrReplace(SubSeq(str, Len(pattern) + 1, Len(str)),
                               pattern, to)
         ELSE <<Head(str)>> \o StrReplace(Tail(str), pattern, to)

\* the orders `for (key, value) in &self.env_vars` may visit the entries in
Iterations(env_vars) ==
    {order \in [1..Cardinality(env_vars) -> env_vars] :
        \A i \in DOMAIN order : \A j \in DOMAIN order :
            i # j => order[i] # order[j]}

\* expand_env_in_string, the entries visited in the given order
RECURSIVE expand_env_in_string(_, _)
expand_env_in_string(result, entries) ==
    IF entries = <<>> THEN result
    ELSE LET key == Head(entries).key
             value == Head(entries).value
             pattern == <<"$">> \o key
             pattern_braces == <<"$", "{">> \o key \o <<"}">>
         IN  expand_env_in_string(
                 StrReplace(StrReplace(result, pattern, value),
                            pattern_braces, value),
                 Tail(entries))

----------------------------------------------------------------------------
(* Plan::compute_levels (plan.rs): Kahn's algorithm.                       *)

\* the keys of in_degree, in first-insertion order
RECURSIVE DegreeKeys(_, _)
DegreeKeys(plan, acc) ==
    IF plan = <<>> THEN acc
    ELSE DegreeKeys(Tail(plan), IndexSetInsert(acc, Head(plan).id))

Sum(f, S) ==
    LET RECURSIVE go(_)
        go(T) == IF T = {} THEN 0
                 ELSE LET x == CHOOSE y \in T : TRUE IN f[x] + go(T \ {x})
    IN go(S)

\* in_degree as it would be if the first loop stored 1 instead of adding 1
InitialInDegree_SetNotAdd(plan) ==
    [id \in OpIds(plan) |->
        IF \E i \in 1..Len(plan) : plan[i].id = id /\ plan[i].inputs # <<>>
        THEN 1 ELSE 0]

\* in_degree after the first loop: one count per inputs entry of the ops
\* stored under that id
InitialInDegree(plan) ==
    [id \in OpIds(plan) |->
        Sum([i \in 1..Len(plan) |->
                IF plan[i].id = id THEN Len(plan[i].inputs) ELSE 0],
            1..Len(plan))]

\* dependents.get(id): the ops that list id among their inputs, one entry
\* per listing, in plan order
RECURSIVE Dependents(_, _)
Dependents(plan, id) ==
    IF plan = <<>> THEN <<>>
    ELSE LET op == Head(plan)
             IsId(x) == x = id
             hits == SelectSeq(op.inputs, IsId)
         IN  [k \in 1..Len(hits) |-> op.id] \o Dependents(Tail(plan), id)

\* the inner loops of one round: in_degree is decremented once per dependent
\* and a dependent whose count reaches zero joins next_level
RECURSIVE Decrement(_, _)
Decrement(st, deps) ==
    IF deps = <<>> THEN st
    ELSE LET d == Head(deps)
             deg == st.deg[d] - 1
         IN  Decrement([deg |-> [st.deg EXCEPT ![d] = deg],
                        next |-> IF deg = 0 THEN Append(st.next, d) ELSE st.next],
                       Tail(deps))

RECURSIVE ProcessLevel(_, _, _)
ProcessLevel(plan, st, current) ==
    IF current = <<>> THEN st
    ELSE ProcessLevel(plan, Decrement(st, Dependents(plan, Head(current))),
                      Tail(current))

\* the while loop as it would be if a round took only the first ready op and
\* left the others for the rounds after it
RECURSIVE KahnLoop_OnePerLevel(_, _, _, _, _)
KahnLoop_OnePerLevel(plan, deg, current_level, levels, processed) ==
    IF current_level = <<>>
    THEN [deg |-> deg, levels |-> levels, processed |-> processed]
    ELSE LET sorted == SortById(current_level)
             st == ProcessLevel(plan, [deg |-> deg, next |-> <<>>],
                                <<Head(sorted)>>)
         IN  KahnLoop_OnePerLevel(plan, st.deg, Tail(sorted) \o st.next,
                                  Append(levels, <<Head(sorted)>>),
                                  processed + 1)

RECURSIVE KahnLoop(_, _, _, _, _)
KahnLoop(plan, deg, current_level, levels, processed) ==
    IF current_level = <<>>
    THEN [deg |-> deg, levels |-> levels, processed |-> processed]
    ELSE LET sorted == SortById(current_level)
             st == ProcessLevel(plan, [deg |-> deg, next |-> <<>>], sorted)
         IN  KahnLoop(plan, st.deg, st.next, Append(levels, sorted),
                      processed + Len(sorted))

\* compute_levels as it would be if CycleError listed every op of the plan
compute_levels_AllOps(plan) ==
    LET in_degree == InitialInDegree(plan)
        keys == DegreeKeys(plan, <<>>)
        IsZero(id) == in_degree[id] = 0
        k == KahnLoop(plan, in_degree, SelectSeq(keys, IsZero), <<>>, 0)
    IN  IF k.processed # Len(plan)
        THEN [ok |-> FALSE, levels |-> <<>>, ops |-> keys]
        ELSE [ok |-> TRUE, levels |-> k.levels, ops |-> <<>>]

\* Ok(levels) is [ok |-> TRUE, levels, ops |-> <<>>];
\* Err(CycleError { ops }) is [ok |-> FALSE, levels |-> <<>>, ops]
compute_levels(plan) ==
    LET in_degree == InitialInDegree(plan)
        keys == DegreeKeys(plan, <<>>)
        IsZero(id) == in_degree[id] = 0
        k == KahnLoop(plan, in_degree, SelectSeq(keys, IsZero), <<>>, 0)
        Positive(id) == k.deg[id] > 0
    IN  IF k.processed # Len(plan)
        THEN [ok |-> FALSE, levels |-> <<>>, ops |-> SelectSeq(keys, Positive)]
        ELSE [ok |-> TRUE, levels |-> k.levels, ops |-> <<>>]

----------------------------------------------------------------------------
(* PlanOptimizer (optimizer.rs).  Option<T> is a sequence of length <= 1.  *)

\* OpKind::can_fold: the pure kinds (arithmetic, comparison, coercion,
\* collection, JSON codec, If); of these the model builds Add, Mul, Reversed
PureKinds == {"Add", "Sub", "Mul", "Neg", "Concat", "Reversed"}

can_fold(kind) == kind.name \in PureKinds

extract_literal(value_ref) ==
    IF value_ref.tag = "Literal" THEN <<value_ref.val>> ELSE <<>>

\* Some((l, r)) when both operands are numeric literals
extract_binary_numeric(left, right) ==
    LET l == extract_literal(left)
        r == extract_literal(right)
    IN  IF l # <<>> /\ r # <<>> /\ l[1].ty = "Int" /\ r[1].ty = "Int"
        THEN <<<<l[1].n, r[1].n>>>> ELSE <<>>

RECURSIVE Reverse(_)
Reverse(s) == IF s = <<>> THEN <<>> ELSE Append(Reverse(Tail(s)), Head(s))

\* evaluate_pure, for the kinds the model builds; every other kind is None,
\* as in the final arm of the match
evaluate_pure(kind) ==
    CASE kind.name = "Add" ->
            LET b == extract_binary_numeric(kind.refs[1], kind.refs[2])
            IN  IF b = <<>> THEN <<>> ELSE <<IntV(b[1][1] + b[1][2])>>
      [] kind.name = "Sub" ->
            LET b == extract_binary_numeric(kind.refs[1], kind.refs[2])
            IN  IF b = <<>> THEN <<>> ELSE <<IntV(b[1][1] - b[1][2])>>
      [] kind.name = "Mul" ->
            LET b == extract_binary_numeric(kind.refs[1], kind.refs[2])
            IN  IF b = <<>> THEN <<>> ELSE <<IntV(b[1][1] * b[1][2])>>
      [] kind.name = "Neg" ->
            LET v == extract_literal(kind.refs[1])
            IN  IF v # <<>> /\ v[1].ty = "Int" THEN <<IntV(0 - v[1].n)>> ELSE <<>>
      [] kind.name = "Concat" ->
            LET l == extract_literal(kind.refs[1])
                r == extract_literal(kind.refs[2])
            IN  IF l # <<>> /\ r # <<>> /\ l[1].ty = "List" /\ r[1].ty = "List"
                THEN <<ListV(l[1].items \o r[1].items)>> ELSE <<>>
      [] kind.name = "Reversed" ->
            LET v == extract_literal(kind.refs[1])
            IN  IF v # <<>> /\ v[1].ty = "List"
                THEN <<ListV(Reverse(v[1].items))>> ELSE <<>>
      [] OTHER -> <<>>

\* i64 in the model: two's complement of IntBits bits
IntMin == 0 - 2 ^ (IntBits - 1)
IntMax == 2 ^ (IntBits - 1) - 1

\* the value of that width that is congruent to n
Wrap(n) == ((n - IntMin) % (2 ^ IntBits)) + IntMin

\* The (Int, Int) arms of evaluate_pure for Add, Sub, Mul, FloorDiv, Mod and
\* the Int arm for Neg, at the width of the integer type: the set of
\* outcomes the build can produce, each Some(Int(n)), None or a panic.  The
\* code uses the plain operators + - * / % and unary -: on overflow they
\* panic in a build with overflow checks and wrap in a build without; / and
\* % with the least integer and -1 panic in every build; / and % truncate
\* toward zero.  evaluate_pure above is the same arms on operands whose
\* result is in range.
evaluate_pure_int(name, a, b) ==
    LET Abs(n) == IF n < 0 THEN 0 - n ELSE n
        quotient == IF (a < 0) = (b < 0) THEN Abs(a) \div Abs(b)
                    ELSE 0 - (Abs(a) \div Abs(b))
        exact == CASE name = "Add" -> a + b
                   [] name = "Sub" -> a - b
                   [] name = "Mul" -> a * b
                   [] name = "Neg" -> 0 - a
                   [] name = "FloorDiv" -> quotient
                   [] name = "Mod" -> a - b * quotient
        Some(n) == [tag |-> "Some", n |-> n]
    IN  IF name \in {"FloorDiv", "Mod"} /\ b = 0
        THEN {[tag |-> "None", n |-> 0]}
        ELSE IF name \in {"FloorDiv", "Mod"} /\ a = IntMin /\ b = 0 - 1
        THEN {[tag |-> "Panic", n |-> 0]}
        ELSE IF exact < IntMin \/ exact > IntMax
        THEN {[tag |-> "Panic", n |-> 0], Some(Wrap(exact))}
        ELSE {Some(exact)}

\* folded: HashMap<OpId, RecordedValue>, a function on the folded ids
substitute_ref(value_ref, folded) ==
    IF value_ref.tag = "OpOutput" /\ value_ref.path = <<>>
       /\ value_ref.op \in DOMAIN folded
    THEN Lit(folded[value_ref.op])
    ELSE value_ref

substitute_folded_refs(kind, folded) ==
    [kind EXCEPT !.refs = [k \in DOMAIN kind.refs |->
                              substitute_ref(kind.refs[k], folded)]]

\* the body of the for loop of constant_fold for the op at index i
FoldOp(st, i) ==
    LET kind == substitute_folded_refs(st.plan[i].kind, st.folded)
        plan == [st.plan EXCEPT ![i].kind = kind]
        id == st.plan[i].id
        result == evaluate_pure(kind)
    IN  IF id \notin DOMAIN st.folded /\ can_fold(kind) /\ result # <<>>
        THEN [plan |-> plan, folded |-> (id :> result[1]) @@ st.folded,
              changed |-> TRUE]
        ELSE [plan |-> plan, folded |-> st.folded, changed |-> st.changed]

RECURSIVE FoldPass(_, _)
FoldPass(st, i) ==
    IF i > Len(st.plan) THEN st ELSE FoldPass(FoldOp(st, i), i + 1)

\* constant_fold's loop as it would be with a single pass over the plan
FoldLoop_SinglePass(plan, folded) ==
    LET st == FoldPass([plan |-> plan, folded |-> folded, changed |-> FALSE], 1)
    IN  [plan |-> st.plan, folded |-> st.folded]

\* the loop of constant_fold: passes over the plan until one changes nothing
RECURSIVE FoldLoop(_, _)
FoldLoop(plan, folded) ==
    LET st == FoldPass([plan |-> plan, folded |-> folded, changed |-> FALSE], 1)
    IN  IF st.changed THEN FoldLoop(st.plan, st.folded)
        ELSE [plan |-> st.plan, folded |-> st.folded]

\* remove_folded_ops as it would be if it removed one folded op a call
remove_folded_ops_OneOp(plan, folded) ==
    IF DOMAIN folded = {} THEN plan
    ELSE remove_ops(plan, {CHOOSE id \in DOMAIN folded :
                              \A other \in DOMAIN folded : id <= other})

remove_folded_ops(plan, folded) ==
    remove_ops(plan, DOMAIN folded)

constant_fold(plan) ==
    LET st == FoldLoop(plan, <<>>)
    IN  remove_folded_ops(st.plan, st.folded)

\* has_side_effects: file, network, exec, env, Sleep, Now, Print
SideEffectKinds ==
    {"ReadFile", "WriteFile", "AppendFile", "DeleteFile", "ListDir", "Mkdir",
     "Rmdir", "CopyFile", "MoveFile", "FileExists", "IsDir", "IsFile",
     "FileSize", "HttpRequest", "TcpConnect", "TcpSend", "TcpRecv", "TcpClose",
     "TcpListen", "TcpAccept", "UdpBind", "UdpSendTo", "UdpRecvFrom",
     "UdpClose", "UnixConnect", "UnixSend", "UnixRecv", "UnixClose",
     "UnixListen", "UnixAccept", "Exec", "EnvGet", "Sleep", "Now", "Print"}

has_side_effects(kind) == kind.name \in SideEffectKinds

\* one pass of the liveness loop of dead_code_eliminate, from index i
RECURSIVE LivePass(_, _, _)
LivePass(plan, used_ops, i) ==
    IF i > Len(plan) THEN used_ops
    ELSE IF plan[i].id \in used_ops
         THEN LivePass(plan,
                       used_ops \cup Range(plan[i].inputs)
                                \cup Range(RefOps(collect_value_refs(plan[i].kind))),
                       i + 1)
         ELSE LivePass(plan, used_ops, i + 1)

RECURSIVE LiveLoop(_, _)
LiveLoop(plan, used_ops) ==
    LET next == LivePass(plan, used_ops, 1)
    IN  IF next # used_ops THEN LiveLoop(plan, next) ELSE used_ops

\* dead_code_eliminate as it would be if liveness were seeded with the ops
\* some other op consumes instead of with the side-effect ops
dead_code_eliminate_Unreferenced(plan) ==
    LET seed == UNION {Range(plan[i].inputs) : i \in 1..Len(plan)}
        used_ops == LiveLoop(plan, seed)
    IN  remove_ops(plan, OpIds(plan) \ used_ops)

\* dead_code_eliminate as it would be without the loop that adds what the
\* used ops depend on
dead_code_eliminate_SeedOnly(plan) ==
    LET seed == {plan[i].id : i \in {j \in 1..Len(plan) :
                                        has_side_effects(plan[j].kind)}}
    IN  remove_ops(plan, OpIds(plan) \ seed)

dead_code_eliminate(plan) ==
    LET seed == {plan[i].id : i \in {j \in 1..Len(plan) :
                                        has_side_effects(plan[j].kind)}}
        used_ops == LiveLoop(plan, seed)
    IN  remove_ops(plan, OpIds(plan) \ used_ops)

OptLevels == {"None", "Basic", "Aggressive"}

optimize(plan, opt_level) ==
    CASE opt_level = "None" -> plan
      [] opt_level = "Basic" -> constant_fold(plan)
      [] opt_level = "Aggressive" -> dead_code_eliminate(constant_fold(plan))

----------------------------------------------------------------------------
(* Action (action.rs) and Policy (policy.rs).  A string is a sequence of   *)
(* one-character strings.                                                  *)

\* an Action: `a` is its path / src / url / host / command / name, `b` the
\* dst of CopyFile and MoveFile, `list` the patterns of WatchFiles
Action(type, a, b, port, list) ==
    [type |-> type, a |-> a, b |-> b, port |-> port, list |-> list]

PathAction(type, path) == Action(type, path, <<>>, 0, <<>>)

\* glob::Pattern::new(pattern).is_ok(), for patterns over literal characters,
\* single `*` wildcards and `[`: a `[` that is never closed is a syntax error
PatternNewOk(pattern) == ~Contains(pattern, "[")

\* glob::Pattern::matches with the default MatchOptions: `*` matches any
\* sequence of characters, the path separator included
RECURSIVE GlobMatches(_, _)
GlobMatches(pattern, value) ==
    IF pattern = <<>> THEN value = <<>>
    ELSE IF Head(pattern) = "*"
         THEN GlobMatches(Tail(pattern), value)
              \/ (value # <<>> /\ GlobMatches(pattern, Tail(value)))
         ELSE value # <<>> /\ Head(value) = Head(pattern)
              /\ GlobMatches(Tail(pattern), Tail(value))

\* `if let Ok(p) = Pattern::new(pattern) { if p.matches(value) ...`
PatternMatches(pattern, value) ==
    PatternNewOk(pattern) /\ GlobMatches(pattern, value)

\* deny patterns are tried before allow patterns
check_patterns(value, allow_patterns, deny_patterns) ==
    IF \E i \in 1..Len(deny_patterns) : PatternMatches(deny_patterns[i], value)
    THEN "Deny"
    ELSE IF \E i \in 1..Len(allow_patterns) :
                PatternMatches(allow_patterns[i], value)
         THEN "Allow"
         ELSE "NoMatch"

\* str::split(':'): the pieces between separators (always at least one)
RECURSIVE Split(_, _)
Split(str, sep) ==
    IF ~Contains(str, sep) THEN <<str>>
    ELSE LET i == CHOOSE k \in 1..Len(str) :
                     str[k] = sep /\ \A j \in 1..(k - 1) : str[j] # sep
         IN  <<SubSeq(str, 1, i - 1)>> \o Split(SubSeq(str, i + 1, Len(str)), sep)

matches_address_pattern(addr, pattern) ==
    LET parts == Split(addr, ":")
        pattern_parts == Split(pattern, ":")
    IN  IF Len(parts) # 2 \/ Len(pattern_parts) # 2 THEN FALSE
        ELSE LET host_matches == pattern_parts[1] = <<"*">>
                                 \/ PatternMatches(pattern_parts[1], parts[1])
                 port_matches == pattern_parts[2] = <<"*">>
                                 \/ parts[2] = pattern_parts[2]
             IN  host_matches /\ port_matches

check_address_patterns(addr, allow_patterns, deny_patterns) ==
    IF \E i \in 1..Len(deny_patterns) :
          matches_address_pattern(addr, deny_patterns[i])
    THEN "Deny"
    ELSE IF \E i \in 1..Len(allow_patterns) :
                matches_address_pattern(addr, allow_patterns[i])
         THEN "Allow"
         ELSE "NoMatch"

\* Path::new(command).file_name(): the last component, unless there is
\* none or it is `..`
FileName(command) ==
    LET NonEmpty(c) == c # <<>> /\ c # <<".">>
        comps == SelectSeq(Split(command, "/"), NonEmpty)
    IN  IF comps = <<>> \/ comps[Len(comps)] = <<".", ".">> THEN <<>>
        ELSE <<comps[Len(comps)]>>

check_command(command, allow_commands, deny_commands) ==
    LET name == FileName(command)
        cmd_name == IF name = <<>> THEN command ELSE name[1]
        Matches(entry) == cmd_name = entry \/ command = entry
    IN  IF \E i \in 1..Len(deny_commands) : Matches(deny_commands[i])
        THEN "Deny"
        ELSE IF \E i \in 1..Len(allow_commands) : Matches(allow_commands[i])
             THEN "Allow"
             ELSE "NoMatch"

Digits == <<"0", "1", "2", "3", "4", "5", "6", "7", "8", "9">>

\* the decimal rendering of a u16 by format!("{}", port)
RECURSIVE ToDecimal(_)
ToDecimal(n) ==
    IF n < 10 THEN <<Digits[n + 1]>>
    ELSE Append(ToDecimal(n \div 10), Digits[(n % 10) + 1])

\* format!("{}:{}", host, port)
FormatAddr(host, port) == host \o <<":">> \o ToDecimal(port)

\* the WatchFiles arm: the first denied pattern returns Deny, otherwise NoMatch
RECURSIVE CheckWatch(_, _)
CheckWatch(pol, patterns) ==
    IF patterns = <<>> THEN "NoMatch"
    ELSE IF check_patterns(Head(patterns), pol.allow_read, pol.deny_read) = "Deny"
         THEN "Deny"
         ELSE CheckWatch(pol, Tail(patterns))

ReadActions == {"ReadFile", "ListDir"}
WriteActions == {"WriteFile", "AppendFile", "DeleteFile", "CreateDir", "DeleteDir"}
CopyActions == {"CopyFile", "MoveFile"}
TcpActions == {"TcpConnect", "TcpListen", "WebhookServe"}
UdpActions == {"UdpBind", "UdpSendTo"}
UnixActions == {"UnixConnect", "UnixListen"}

\* Policy::check
PolicyCheck(pol, action) ==
    CASE action.type \in ReadActions ->
            check_patterns(action.a, pol.allow_read, pol.deny_read)
      [] action.type \in WriteActions ->
            check_patterns(action.a, pol.allow_write, pol.deny_write)
      [] action.type \in CopyActions ->
            LET src_decision == check_patterns(action.a, pol.allow_read, pol.deny_read)
                dst_decision == check_patterns(action.b, pol.allow_write, pol.deny_write)
            IN  IF src_decision = "Deny" THEN "Deny"
                ELSE IF dst_decision = "Deny" THEN "Deny"
                ELSE IF src_decision = "Allow" /\ dst_decision = "Allow" THEN "Allow"
                ELSE "NoMatch"
      [] action.type = "HttpRequest" ->
            check_patterns(action.a, pol.allow_http, pol.deny_http)
      [] action.type \in TcpActions ->
            check_address_patterns(FormatAddr(action.a, action.port),
                                   pol.allow_tcp, pol.deny_tcp)
      [] action.type \in UdpActions ->
            check_address_patterns(FormatAddr(action.a, action.port),
                                   pol.allow_udp, pol.deny_udp)
      [] action.type \in UnixActions ->
            check_patterns(action.a, pol.allow_unix, pol.deny_unix)
      [] action.type = "Exec" ->
            check_command(action.a, pol.allow_commands, pol.deny_commands)
      [] action.type = "EnvGet" ->
            check_patterns(action.a, pol.allow_vars, pol.deny_vars)
      [] action.type = "WatchFiles" -> CheckWatch(pol, action.list)

----------------------------------------------------------------------------
(* PlanValidator (validator.rs).  Errors are records of one shape.         *)

Error(type, from, to, ids) == [type |-> type, from |-> from, to |-> to, ops |-> ids]

ReferenceErrors_ValueRefsOnly(op, valid_ids) ==
    LET Dangling(id) == id \notin valid_ids
        bad_refs == SelectSeq(RefOps(collect_value_refs(op.kind)), Dangling)
    IN  [k \in 1..Len(bad_refs) |->
            Error("UnknownOpReference", op.id, bad_refs[k], <<>>)]

\* the errors of check_references for one op: its dangling inputs, then its
\* dangling ValueRef targets
ReferenceErrors(op, valid_ids) ==
    LET Dangling(id) == id \notin valid_ids
        bad_inputs == SelectSeq(op.inputs, Dangling)
        bad_refs == SelectSeq(RefOps(collect_value_refs(op.kind)), Dangling)
    IN  [k \in 1..Len(bad_inputs) |->
            Error("UnknownOpReference", op.id, bad_inputs[k], <<>>)]
        \o [k \in 1..Len(bad_refs) |->
            Error("UnknownOpReference", op.id, bad_refs[k], <<>>)]

RECURSIVE CheckReferencesFrom(_, _, _)
CheckReferencesFrom(plan, valid_ids, i) ==
    IF i > Len(plan) THEN <<>>
    ELSE ReferenceErrors(plan[i], valid_ids)
         \o CheckReferencesFrom(plan, valid_ids, i + 1)

check_references(plan) == CheckReferencesFrom(plan, OpIds(plan), 1)

\* check_combinators: AtLeast.count > ops.len()
check_combinators(plan) ==
    LET Bad(op) == op.kind.name = "AtLeast" /\ op.kind.count > Len(op.kind.op_refs)
        bad == SelectSeq(plan, Bad)
    IN  [k \in 1..Len(bad) |-> Error("InvalidCombinatorCount", bad[k].id, 0, <<>>)]

\* cfg!(unix): the build target the model describes
cfg_unix == TRUE

UnixKinds == {"UnixConnect", "UnixSend", "UnixRecv", "UnixClose",
              "UnixListen", "UnixAccept"}

check_platform_support(plan) ==
    LET Bad(op) == op.kind.name \in UnixKinds /\ ~cfg_unix
        bad == SelectSeq(plan, Bad)
    IN  [k \in 1..Len(bad) |-> Error("UnsupportedPlatform", bad[k].id, 0, <<>>)]

\* OpKind::requires_approval: the kinds that act on files, the network,
\* processes or the environment, i.e. those an Action variant exists for
ApprovalKinds ==
    {"ReadFile", "WriteFile", "AppendFile", "DeleteFile", "ListDir", "Mkdir",
     "Rmdir", "CopyFile", "MoveFile", "HttpRequest", "TcpConnect", "TcpListen",
     "UdpBind", "UdpSendTo", "UnixConnect", "UnixListen", "Exec", "EnvGet"}

requires_approval(kind) == kind.name \in ApprovalKinds

\* RecordedValue::as_string on a literal operand
LitString(value_ref) ==
    IF value_ref.tag = "Literal" /\ value_ref.val.ty = "String"
    THEN <<value_ref.val.s>> ELSE <<>>

\* RecordedValue::as_int on a literal operand
LitInt(value_ref) ==
    IF value_ref.tag = "Literal" /\ value_ref.val.ty = "Int"
    THEN <<value_ref.val.n>> ELSE <<>>

\* `port as u16`
AsU16(n) == n % 65536

\* the Action variant each single-path kind maps to
PathActionName(name) ==
    CASE name = "Mkdir" -> "CreateDir"
      [] name = "Rmdir" -> "DeleteDir"
      [] OTHER -> name

\* op_kind_to_action: Some(action) only when the operands it reads are
\* literals of the right type
op_kind_to_action(kind) ==
    CASE kind.name \in {"ReadFile", "WriteFile", "AppendFile", "DeleteFile",
                        "ListDir", "Mkdir", "Rmdir"} ->
            LET path == LitString(kind.refs[1])
            IN  IF path = <<>> THEN <<>>
                ELSE <<PathAction(PathActionName(kind.name), path[1])>>
      [] kind.name \in {"CopyFile", "MoveFile"} ->
            LET src == LitString(kind.refs[1])
                dst == LitString(kind.refs[2])
            IN  IF src = <<>> \/ dst = <<>> THEN <<>>
                ELSE <<Action(kind.name, src[1], dst[1], 0, <<>>)>>
      [] kind.name = "HttpRequest" ->
            LET method == LitString(kind.refs[1])
                url == LitString(kind.refs[2])
            IN  IF method = <<>> \/ url = <<>> THEN <<>>
                ELSE <<PathAction("HttpRequest", url[1])>>
      [] kind.name \in {"TcpConnect", "TcpListen", "UdpBind", "UdpSendTo"} ->
            LET host == LitString(kind.refs[1])
                port == LitInt(kind.refs[2])
            IN  IF host = <<>> \/ port = <<>> THEN <<>>
                ELSE <<Action(kind.name, host[1], <<>>, AsU16(port[1]), <<>>)>>
      [] kind.name = "Exec" ->
            LET command == LitString(kind.refs[1])
            IN  IF command = <<>> THEN <<>>
                ELSE <<PathAction("Exec", command[1])>>
      [] OTHER -> <<>>

check_policy(plan, pol) ==
    LET Denied(op) ==
            /\ requires_approval(op.kind)
            /\ op_kind_to_action(op.kind) # <<>>
            /\ PolicyCheck(pol, op_kind_to_action(op.kind)[1]) = "Deny"
        bad == SelectSeq(plan, Denied)
    IN  [k \in 1..Len(bad) |-> Error("PolicyDenied", bad[k].id, 0, <<>>)]

\* PlanValidator::validate with policy = Some(pol) when has_policy, None
\* otherwise: its errors, and its levels (the result of compute_levels)
validate(plan, has_policy, pol) ==
    LET lv == compute_levels(plan)
    IN  [errors |->
            check_references(plan)
            \o (IF lv.ok THEN <<>> ELSE <<Error("CycleDetected", 0, 0, lv.ops)>>)
            \o check_combinators(plan)
            \o check_platform_support(plan)
            \o (IF has_policy THEN check_policy(plan, pol) ELSE <<>>),
         levels |-> lv]

is_valid(result) == result.errors = <<>>

----------------------------------------------------------------------------
(* OpCache (cache.rs): two moka caches.  An entry written by insert is     *)
(* read back by get until it is invalidated or evicted.                    *)

KeyedEntry(op_id, input_hash, value) ==
    [op |-> op_id, hash |-> input_hash, value |-> value]

LatestEntry(op_id, value) == [op |-> op_id, value |-> value]

\* OpCache::get keyed by the op alone
CacheGet_AnyHash(c, op_id, input_hash) ==
    LET hit == {e \in c : e.op = op_id}
    IN  IF hit = {} THEN <<>>
        ELSE <<[value |-> (CHOOSE e \in hit : TRUE).value,
                input_hash |-> input_hash]>>

\* OpCache::get: Some(CachedResult { value, input_hash }) or None
CacheGet(c, op_id, input_hash) ==
    LET hit == {e \in c : e.op = op_id /\ e.hash = input_hash}
    IN  IF hit = {} THEN <<>>
        ELSE <<[value |-> (CHOOSE e \in hit : TRUE).value,
                input_hash |-> input_hash]>>

\* OpCache::get_value
CacheGetValue(vc, op_id) ==
    LET hit == {e \in vc : e.op = op_id}
    IN  IF hit = {} THEN <<>> ELSE <<(CHOOSE e \in hit : TRUE).value>>

\* moka Cache::insert: the entry under the key is replaced
KeyedInsert(c, op_id, input_hash, value) ==
    {e \in c : ~(e.op = op_id /\ e.hash = input_hash)}
    \cup {KeyedEntry(op_id, input_hash, value)}

LatestInsert(vc, op_id, value) ==
    {e \in vc : e.op # op_id} \cup {LatestEntry(op_id, value)}

\* moka Cache::invalidate on the latest layer
LatestInvalidate(vc, op_id) == {e \in vc : e.op # op_id}

----------------------------------------------------------------------------
(* compute_input_hash (cache.rs) and ValueResolver (resolver.rs).  The     *)
(* hash is modelled by the sequence of writes made to the hasher: finish() *)
(* is a function of that sequence.  A write is <<width, value>>.           *)

\* the concatenation of the sequences of a sequence
RECURSIVE Flatten(_)
Flatten(ss) == IF ss = <<>> THEN <<>> ELSE Head(ss) \o Flatten(Tail(ss))

\* hash_recorded_value; a String writes its bytes and a terminator, a List
\* writes its tag and then its items, with no length
RECURSIVE hash_recorded_value(_)
hash_recorded_value(value) ==
    CASE value.ty = "None" -> <<<<"u8", 0>>>>
      [] value.ty = "Int" -> <<<<"u8", 2>>, <<"i64", value.n>>>>
      [] value.ty = "String" -> <<<<"u8", 4>>, <<"str", value.s>>>>
      [] value.ty = "List" ->
            <<<<"u8", 6>>>>
            \o Flatten([k \in 1..Len(value.items) |->
                           hash_recorded_value(value.items[k])])

\* hash_value_ref for the operands of the model (Literal and OpOutput): an
\* OpOutput writes its op id and its accessors
hash_value_ref(value_ref) ==
    CASE value_ref.tag = "Literal" ->
            <<<<"u8", 0>>>> \o hash_recorded_value(value_ref.val)
      [] value_ref.tag = "OpOutput" ->
            <<<<"u8", 1>>, <<"id", value_ref.op>>>>
            \o Flatten([k \in 1..Len(value_ref.path) |->
                           <<<<"tag", "Index">>, <<"i64", value_ref.path[k]>>>>])

compute_input_hash(inputs) ==
    Flatten([k \in 1..Len(inputs) |-> hash_value_ref(inputs[k])])

\* ValueResolver::resolve_path over Index accessors: Some(value) or None
RECURSIVE resolve_path(_, _)
resolve_path(base, path) ==
    IF path = <<>> THEN <<base>>
    ELSE IF base.ty # "List" THEN <<>>
    ELSE LET index == Head(path)
             idx == IF index < 0 THEN Len(base.items) + index ELSE index
         IN  IF idx < 0 \/ idx >= Len(base.items) THEN <<>>
             ELSE resolve_path(base.items[idx + 1], Tail(path))

\* ValueResolver::resolve with no params and no local results: an OpOutput
\* is read from the latest layer of the cache
resolve(vc, value_ref) ==
    IF value_ref.tag = "Literal" THEN <<value_ref.val>>
    ELSE LET base_value == CacheGetValue(vc, value_ref.op)
         IN  IF base_value = <<>> THEN <<>>
             ELSE resolve_path(base_value[1], value_ref.path)

----------------------------------------------------------------------------
(* CompiledPlan (compiled.rs): to_bytes and from_bytes.  bincode is        *)
(* modelled by the bytes it writes and reads: integers at their fixed      *)
(* width, little-endian; a String or a Vec as its u64 length and then its  *)
(* elements; an enum as its u32 variant index and then its fields; an      *)
(* Option as one byte, 0 or 1, and then the value.                         *)

MAGIC == <<66, 80, 0, 1>>

PLAN_SCHEMA_VERSION == 5

\* n in w bytes, little-endian, two's complement; the integers of the
\* model lie within 32 bits, the bytes above the fourth are the sign
LE(n, w) ==
    [i \in 1..w |->
        IF i <= 4 THEN (n \div <<1, 256, 65536, 16777216>>[i]) % 256
        ELSE IF n < 0 THEN 255 ELSE 0]

\* the characters of the model's strings and their bytes
AsciiTable ==
    <<<<"/", 47>>, <<"a", 97>>, <<"b", 98>>, <<"e", 101>>, <<"p", 112>>,
      <<"s", 115>>, <<"t", 116>>>>

\* the OpKind variants a compiled plan of the model holds, in variant
\* order, and the number of ValueRef fields of each
KindTable ==
    <<<<"ReadFile", 1>>, <<"Print", 1>>, <<"Add", 2>>, <<"After", 0>>>>

\* bincode::serialize of a value x of the type named by `what`
RECURSIVE serialize(_, _)
serialize(what, x) ==
    LET Each(item, xs) ==
            Flatten([k \in 1..Len(xs) |-> serialize(item, xs[k])])
        Vec(item, xs) == LE(Len(xs), 8) \o Each(item, xs)
    IN  CASE what = "u8" -> LE(x, 1)
          [] what = "u32" -> LE(x, 4)
          [] what = "u64" -> LE(x, 8)
          [] what = "i64" -> LE(x, 8)
          [] what = "char" ->
                <<AsciiTable[CHOOSE k \in 1..Len(AsciiTable) :
                                AsciiTable[k][1] = x][2]>>
          [] what = "String" -> Vec("char", x)
          [] what = "RecordedValue" ->
                IF x.ty = "None" THEN LE(0, 4)
                ELSE IF x.ty = "Int" THEN LE(2, 4) \o serialize("i64", x.n)
                ELSE IF x.ty = "String"
                THEN LE(4, 4) \o serialize("String", x.s)
                ELSE LE(6, 4) \o Vec("RecordedValue", x.items)
          [] what = "Accessor" -> LE(1, 4) \o serialize("i64", x)
          [] what = "ValueRef" ->
                IF x.tag = "Literal"
                THEN LE(0, 4) \o serialize("RecordedValue", x.val)
                ELSE LE(1, 4) \o serialize("u64", x.op)
                     \o Vec("Accessor", x.path)
          [] what = "OpKind" ->
                LE((CHOOSE k \in 1..Len(KindTable) :
                       KindTable[k][1] = x.name) - 1, 4)
                \o Each("ValueRef", x.refs) \o Each("u64", x.op_refs)
          [] what = "Op" ->
                \* id, kind, inputs, source_location: None, guard: None
                serialize("u64", x.id) \o serialize("OpKind", x.kind)
                \o Vec("u64", x.inputs) \o LE(0, 1) \o LE(0, 1)
          [] what = "Plan" ->
                Vec("Op", x.ops) \o serialize("u64", x.next_id)
          [] what = "Option<String>" ->
                IF x = <<>> THEN LE(0, 1)
                ELSE LE(1, 1) \o serialize("String", x[1])
          [] what = "Option<PlanMetadata>" ->
                IF x = <<>> THEN LE(0, 1)
                ELSE LE(1, 1)
                     \o serialize("Option<String>", x[1].source_file)
                     \o serialize("Option<String>", x[1].source_content)
          [] what = "CompiledPlan" ->
                serialize("u32", x.schema_version)
                \o serialize("String", x.source_hash)
                \o serialize("u64", x.compiled_at)
                \o serialize("u8", x.optimization_level)
                \o serialize("Plan", x.plan)
                \o serialize("Option<PlanMetadata>", x.metadata)

to_bytes_NoMagic(compiled) == serialize("CompiledPlan", compiled)

\* CompiledPlan::to_bytes
to_bytes(compiled) == MAGIC \o serialize("CompiledPlan", compiled)

\* A read: whether it succeeded, the value read, the bytes left
Fail == [ok |-> FALSE, val |-> 0, rest |-> <<>>]
Read(v, rest) == [ok |-> TRUE, val |-> v, rest |-> rest]

Drop(b, n) == SubSeq(b, n + 1, Len(b))

\* an integer of w bytes (1, 4 or 8), signed or not.  A value beyond 32
\* bits is beyond the integers of the model and is read as a failure; no
\* input of the model holds one in a field that is read.
de_int(b, w, signed) ==
    LET low == [i \in 1..4 |-> IF i <= w THEN b[i] ELSE 0]
        Value(top) ==
            low[1] + 256 * low[2] + 65536 * low[3] + 16777216 * top
    IN  IF Len(b) < w THEN Fail
        ELSE IF (\A i \in 5..w : b[i] = 0) /\ low[4] < 128
        THEN Read(Value(low[4]), Drop(b, w))
        ELSE IF signed /\ (\A i \in 5..w : b[i] = 255) /\ low[4] >= 128
        THEN Read(Value(low[4] - 256), Drop(b, w))
        ELSE Fail

\* bincode::deserialize of a value of the type named by `what` from the
\* front of b, and of the fields of a struct or of an enum variant in
\* order, each <<"One", type>> or <<"Vec", item type>>
RECURSIVE deserialize(_, _), deserialize_fields(_, _)
deserialize_fields(whats, b) ==
    IF whats = <<>> THEN Read(<<>>, b)
    ELSE LET h == IF Head(whats)[1] = "One"
                  THEN deserialize(Head(whats)[2], b)
                  ELSE \* a Vec: its length, then that many items (each
                       \* takes a byte or more)
                       LET n == de_int(b, 8, FALSE)
                       IN  IF ~n.ok THEN Fail
                           ELSE IF n.val > Len(n.rest) THEN Fail
                           ELSE deserialize_fields(
                                    [k \in 1..n.val |->
                                        <<"One", Head(whats)[2]>>], n.rest)
         IN  IF ~h.ok THEN Fail
             ELSE LET t == deserialize_fields(Tail(whats), h.rest)
                  IN  IF ~t.ok THEN Fail
                      ELSE Read(<<h.val>> \o t.val, t.rest)

deserialize(what, b) ==
    LET Fields(whats, bytes) == deserialize_fields(whats, bytes)
        \* the variant index of an enum, or the tag of an Option
        tag == de_int(b, IF what \in {"Option<String>", "Option<PlanMetadata>"}
                         THEN 1 ELSE 4, FALSE)
    IN  CASE what = "u8" -> de_int(b, 1, FALSE)
          [] what = "u32" -> de_int(b, 4, FALSE)
          [] what = "u64" -> de_int(b, 8, FALSE)
          [] what = "i64" -> de_int(b, 8, TRUE)
          [] what = "char" ->
                IF b = <<>> THEN Fail
                ELSE IF \A k \in 1..Len(AsciiTable) : AsciiTable[k][2] # b[1]
                THEN Fail
                ELSE Read(AsciiTable[CHOOSE k \in 1..Len(AsciiTable) :
                                        AsciiTable[k][2] = b[1]][1],
                          Drop(b, 1))
          [] what = "String" ->
                LET f == Fields(<<<<"Vec", "char">>>>, b)
                IN  IF ~f.ok THEN Fail ELSE Read(f.val[1], f.rest)
          [] what = "RecordedValue" ->
                IF ~tag.ok THEN Fail
                ELSE IF tag.val = 0 THEN Read(NoneV, tag.rest)
                ELSE IF tag.val \notin {2, 4, 6} THEN Fail
                ELSE LET f == Fields(IF tag.val = 2
                                     THEN <<<<"One", "i64">>>>
                                     ELSE IF tag.val = 4
                                     THEN <<<<"One", "String">>>>
                                     ELSE <<<<"Vec", "RecordedValue">>>>,
                                     tag.rest)
                     IN  IF ~f.ok THEN Fail
                         ELSE Read(IF tag.val = 2 THEN IntV(f.val[1])
                                   ELSE IF tag.val = 4 THEN StrV(f.val[1])
                                   ELSE ListV(f.val[1]), f.rest)
          [] what = "Accessor" ->
                IF ~tag.ok THEN Fail
                ELSE IF tag.val # 1 THEN Fail
                ELSE deserialize("i64", tag.rest)
          [] what = "ValueRef" ->
                IF ~tag.ok THEN Fail
                ELSE IF tag.val \notin {0, 1} THEN Fail
                ELSE LET f == Fields(IF tag.val = 0
                                     THEN <<<<"One", "RecordedValue">>>>
                                     ELSE <<<<"One", "u64">>,
                                            <<"Vec", "Accessor">>>>,
                                     tag.rest)
                     IN  IF ~f.ok THEN Fail
                         ELSE Read(IF tag.val = 0 THEN Lit(f.val[1])
                                   ELSE Out(f.val[1], f.val[2]), f.rest)
          [] what = "OpKind" ->
                IF ~tag.ok THEN Fail
                ELSE IF tag.val >= Len(KindTable) THEN Fail
                ELSE LET name == KindTable[tag.val + 1][1]
                         refs == Fields([k \in 1..KindTable[tag.val + 1][2] |->
                                            <<"One", "ValueRef">>], tag.rest)
                     IN  IF ~refs.ok THEN Fail
                         ELSE LET op_refs ==
                                      Fields(IF name = "After"
                                             THEN <<<<"One", "u64">>,
                                                    <<"One", "u64">>>>
                                             ELSE <<>>, refs.rest)
                              IN  IF ~op_refs.ok THEN Fail
                                  ELSE Read(KindWith(name, refs.val,
                                                     op_refs.val, 0),
                                            op_refs.rest)
          [] what = "Op" ->
                \* a source_location or a guard that is Some is not of
                \* the model
                LET f == Fields(<<<<"One", "u64">>, <<"One", "OpKind">>,
                                  <<"Vec", "u64">>, <<"One", "u8">>,
                                  <<"One", "u8">>>>, b)
                IN  IF ~f.ok THEN Fail
                    ELSE IF f.val[4] # 0 \/ f.val[5] # 0 THEN Fail
                    ELSE Read(Op(f.val[1], f.val[2], f.val[3]), f.rest)
          [] what = "Plan" ->
                LET f == Fields(<<<<"Vec", "Op">>, <<"One", "u64">>>>, b)
                IN  IF ~f.ok THEN Fail
                    ELSE Read([ops |-> f.val[1], next_id |-> f.val[2]],
                              f.rest)
          [] what = "Option<String>" ->
                IF ~tag.ok THEN Fail
                ELSE IF tag.val = 0 THEN Read(<<>>, tag.rest)
                ELSE IF tag.val # 1 THEN Fail
                ELSE LET s == deserialize("String", tag.rest)
                     IN  IF ~s.ok THEN Fail ELSE Read(<<s.val>>, s.rest)
          [] what = "Option<PlanMetadata>" ->
                IF ~tag.ok THEN Fail
                ELSE IF tag.val = 0 THEN Read(<<>>, tag.rest)
                ELSE IF tag.val # 1 THEN Fail
                ELSE LET f == Fields(<<<<"One", "Option<String>">>,
                                       <<"One", "Option<String>">>>>,
                                     tag.rest)
                     IN  IF ~f.ok THEN Fail
                         ELSE Read(<<[source_file |-> f.val[1],
                                      source_content |-> f.val[2]]>>, f.rest)
          [] what = "CompiledPlan" ->
                \* bytes after the value are allowed
                LET f == Fields(<<<<"One", "u32">>, <<"One", "String">>,
                                  <<"One", "u64">>, <<"One", "u8">>,
                                  <<"One", "Plan">>,
                                  <<"One", "Option<PlanMetadata>">>>>, b)
                IN  IF ~f.ok THEN Fail
                    ELSE Read([schema_version |-> f.val[1],
                               source_hash |-> f.val[2],
                               compiled_at |-> f.val[3],
                               optimization_level |-> f.val[4],
                               plan |-> f.val[5],
                               metadata |-> f.val[6]], f.rest)

\* Result<CompiledPlan, CompiledPlanError>
LoadOk(compiled) ==
    [tag |-> "Ok", err |-> "", expected |-> 0, found |-> 0,
     compiled |-> compiled]

LoadErr(err, expected, found) ==
    [tag |-> "Err", err |-> err, expected |-> expected, found |-> found,
     compiled |-> <<>>]

from_bytes_NoVersionCheck(bytes) ==
    IF Len(bytes) < Len(MAGIC) THEN LoadErr("InvalidMagic", 0, 0)
    ELSE IF SubSeq(bytes, 1, Len(MAGIC)) # MAGIC
    THEN LoadErr("InvalidMagic", 0, 0)
    ELSE LET compiled == deserialize("CompiledPlan", Drop(bytes, Len(MAGIC)))
         IN  IF ~compiled.ok THEN LoadErr("SerializationError", 0, 0)
             ELSE LoadOk(compiled.val)

\* CompiledPlan::from_bytes
from_bytes(bytes) ==
    IF Len(bytes) < Len(MAGIC) THEN LoadErr("InvalidMagic", 0, 0)
    ELSE IF SubSeq(bytes, 1, Len(MAGIC)) # MAGIC
    THEN LoadErr("InvalidMagic", 0, 0)
    ELSE LET compiled == deserialize("CompiledPlan", Drop(bytes, Len(MAGIC)))
         IN  IF ~compiled.ok THEN LoadErr("SerializationError", 0, 0)
             ELSE IF compiled.val.schema_version # PLAN_SCHEMA_VERSION
             THEN LoadErr("SchemaMismatch", PLAN_SCHEMA_VERSION,
                          compiled.val.schema_version)
             ELSE LoadOk(compiled.val)

\* CompiledPlan::new; compiled_at is the clock's reading
CompiledPlanNew(plan, source_hash, compiled_at, opt_level, metadata) ==
    [schema_version |-> PLAN_SCHEMA_VERSION,
     source_hash |-> source_hash,
     compiled_at |-> compiled_at,
     optimization_level |-> opt_level,
     plan |-> plan,
     metadata |-> metadata]

\* CompiledPlan::optimization_level
optimization_level(compiled) ==
    IF compiled.optimization_level = 0 THEN "None"
    ELSE IF compiled.optimization_level = 1 THEN "Basic"
    ELSE "Aggressive"

----------------------------------------------------------------------------
(* The generator's Value and its lowering to SchemaValue (value.rs).       *)

\* a generator Value: None, Int(n), List, Tuple and Dict of items, OpRef(n),
\* ParamRef(s), Function; the k-th item of a Dict is the value under its
\* k-th key
Value(ty, n, items, s) == [ty |-> ty, n |-> n, items |-> items, s |-> s]

\* a SchemaValue: Literal(val), List(items), OpRef { id: val, path: [] },
\* ParamRef(val)
SchemaValue(tag, val, items) == [tag |-> tag, val |-> val, items |-> items]

RECURSIVE contains_dynamic(_)
contains_dynamic(v) ==
    CASE v.ty \in {"OpRef", "ParamRef"} -> TRUE
      [] v.ty \in {"List", "Tuple", "Dict"} ->
            \E k \in 1..Len(v.items) : contains_dynamic(v.items[k])
      [] OTHER -> FALSE

\* Value::to_schema_value and Value::to_literal (Some(rv) or None); a
\* filter_map over to_literal keeps the items that lower to a Literal
RECURSIVE to_schema_value(_), to_literal(_)
to_literal(v) ==
    LET lowered == to_schema_value(v)
    IN  IF lowered.tag = "Literal" THEN <<lowered.val>> ELSE <<>>

to_schema_value(v) ==
    LET literals == Flatten([k \in 1..Len(v.items) |-> to_literal(v.items[k])])
        entries ==
            Flatten([k \in 1..Len(v.items) |->
                        LET rv == to_literal(v.items[k])
                        IN  IF rv = <<>> THEN <<>> ELSE <<<<k, rv[1]>>>>])
    IN  CASE v.ty = "None" -> SchemaValue("Literal", NoneV, <<>>)
          [] v.ty = "Int" -> SchemaValue("Literal", IntV(v.n), <<>>)
          [] v.ty = "List" ->
                IF \E k \in 1..Len(v.items) : contains_dynamic(v.items[k])
                THEN SchemaValue("List", 0,
                         [k \in 1..Len(v.items) |-> to_schema_value(v.items[k])])
                ELSE SchemaValue("Literal", ListV(literals), <<>>)
          [] v.ty = "Tuple" -> SchemaValue("Literal", ListV(literals), <<>>)
          [] v.ty = "Dict" ->
                SchemaValue("Literal",
                    [ty |-> "Dict", n |-> 0, items |-> entries, s |-> <<>>],
                    <<>>)
          [] v.ty = "OpRef" -> SchemaValue("OpRef", v.n, <<>>)
          [] v.ty = "ParamRef" -> SchemaValue("ParamRef", v.s, <<>>)
          [] v.ty = "Function" -> SchemaValue("Literal", NoneV, <<>>)

----------------------------------------------------------------------------
(* The inputs the actions draw from.                                       *)

\* the op ids an operand may name
RefIds == {0, 1}

Paths == {<<>>, <<0>>}

PlanKinds ==
    {Kind("Add", <<Lit(IntV(1)), Lit(IntV(2))>>),
     Kind("Reversed", <<Lit(ListV(<<1, 2>>))>>),
     Kind("ReadFile", <<Lit(StrV(<<"a">>))>>),
     After(0, 1), After(1, 0)}
    \cup {Kind("Add", <<Out(o, <<>>), Lit(IntV(2))>>) : o \in RefIds}
    \cup {Kind("Mul", <<Out(o, <<>>), Lit(IntV(3))>>) : o \in RefIds}
    \cup {Kind("Print", <<Out(o, p)>>) : o \in RefIds, p \in Paths}
    \cup {ForEach(Out(0, <<>>),
                  <<Op(0, Kind("WriteFile", <<Lit(StrV(<<"a">>))>>), <<>>)>>)}

\* /e/p stands for /etc/passwd, /e/* for /etc/*
EtcPasswd == <<"/", "e", "/", "p">>
TmpFile == <<"/", "t">>
EtcStar == <<"/", "e", "/", "*">>
Star == <<"*">>
BadPattern == <<"[">>
HostH == <<"h">>
HostV6 == <<":", ":", "1">>
AddrH80 == <<"h", ":", "8", "0">>
AddrAny == <<"*", ":", "*">>
CmdRm == <<"r">>
CmdBinRm == <<"/", "b", "/", "r">>
CmdLs == <<"l">>

\* Policy with deny_write, allow_write and deny_read given; when
\* deny_rest (allow_rest) holds, every other category has a deny (allow)
\* entry matching the targets the model uses
MkPolicy(deny_write, allow_write, deny_read, deny_rest, allow_rest) ==
    [allow_read |-> IF allow_rest THEN <<BadPattern, Star>> ELSE <<>>,
     deny_read |-> deny_read,
     allow_write |-> allow_write,
     deny_write |-> deny_write,
     allow_http |-> IF allow_rest THEN <<Star>> ELSE <<>>,
     deny_http |-> IF deny_rest THEN <<EtcStar>> ELSE <<>>,
     allow_tcp |-> IF allow_rest THEN <<AddrAny>> ELSE <<>>,
     deny_tcp |-> IF deny_rest THEN <<AddrH80>> ELSE <<>>,
     allow_udp |-> IF allow_rest THEN <<AddrH80>> ELSE <<>>,
     deny_udp |-> IF deny_rest THEN <<AddrAny>> ELSE <<>>,
     allow_unix |-> IF allow_rest THEN <<Star>> ELSE <<>>,
     deny_unix |-> IF deny_rest THEN <<EtcStar>> ELSE <<>>,
     allow_commands |-> IF allow_rest THEN <<CmdLs, CmdBinRm>> ELSE <<>>,
     deny_commands |-> IF deny_rest THEN <<CmdRm>> ELSE <<>>,
     allow_vars |-> IF allow_rest THEN <<Star>> ELSE <<>>,
     deny_vars |-> IF deny_rest THEN <<EtcStar>> ELSE <<>>]

Policies ==
    {MkPolicy(dw, aw, dr, d, a) :
        dw \in {<<>>, <<EtcStar>>, <<BadPattern>>},
        aw \in {<<>>, <<Star>>},
        dr \in {<<>>, <<EtcStar>>},
        d \in BOOLEAN, a \in BOOLEAN}

\* Policy::default()
DefaultPolicy == MkPolicy(<<>>, <<>>, <<>>, FALSE, FALSE)

Targets == {EtcPasswd, TmpFile}

Actions ==
    {PathAction(ty, path) :
        ty \in ReadActions \cup WriteActions \cup UnixActions
               \cup {"HttpRequest", "EnvGet"},
        path \in Targets}
    \cup {Action(ty, src, dst, 0, <<>>) :
            ty \in CopyActions, src \in Targets, dst \in Targets}
    \cup {Action(ty, host, <<>>, port, <<>>) :
            ty \in TcpActions \cup UdpActions,
            host \in {HostH, HostV6}, port \in {80, 443}}
    \cup {PathAction("Exec", cmd) : cmd \in {CmdRm, CmdBinRm, CmdLs}}
    \cup {Action("WatchFiles", <<>>, <<>>, 0, list) :
            list \in {<<>>, <<TmpFile>>, <<TmpFile, EtcPasswd>>}}

PolicyKinds ==
    {Kind("WriteFile", <<path, Lit(StrV(<<"x">>))>>) :
        path \in {Lit(StrV(EtcPasswd)), Lit(StrV(TmpFile)), Lit(IntV(1)),
                  Out(0, <<>>)}}
    \cup {Kind("ReadFile", <<Lit(StrV(path))>>) : path \in Targets}
    \cup {Kind("Mkdir", <<Lit(StrV(EtcPasswd))>>),
          Kind("CopyFile", <<Lit(StrV(TmpFile)), Lit(StrV(EtcPasswd))>>),
          Kind("CopyFile", <<Lit(StrV(TmpFile)), Out(0, <<>>)>>),
          Kind("TcpConnect", <<Lit(StrV(HostH)), Lit(IntV(80))>>),
          Kind("TcpConnect", <<Lit(StrV(HostH)), Lit(IntV(65616))>>),
          Kind("UdpSendTo", <<Lit(StrV(HostH)), Lit(IntV(443))>>),
          Kind("Exec", <<Lit(StrV(CmdBinRm)), Lit(ListV(<<>>))>>),
          Kind("HttpRequest", <<Lit(StrV(<<"G">>)), Lit(StrV(EtcPasswd))>>),
          Kind("UnixConnect", <<Lit(StrV(EtcPasswd))>>),
          Kind("EnvGet", <<Lit(StrV(EtcPasswd))>>),
          Kind("Print", <<Lit(StrV(EtcPasswd))>>)}

CacheOps == {0, 1}
Hashes == {1, 2}
Values == {IntV(1), IntV(2)}

\* the results the upstream op of the cached run may record
UpstreamValues ==
    {IntV(1), IntV(2),
     ListV(<<ListV(<<>>), IntV(1)>>),
     ListV(<<ListV(<<IntV(1)>>)>>)}

\* the operand lists of the consumer op
ConsumerInputs ==
    {<<Out(0, <<>>)>>, <<Out(0, <<0>>)>>, <<Lit(IntV(1)), Out(0, <<>>)>>}

\* the kinds of the plans that are built and pruned: the two of
\* test_plan_inputs_computed, a kind that names one op twice, a kind that
\* names two ops, and After both ways round
BuildKinds ==
    {Kind("ReadFile", <<Lit(StrV(<<"a">>))>>),
     Kind("JsonDecode", <<Out(0, <<>>)>>),
     Kind("Add", <<Out(0, <<>>), Out(0, <<0>>)>>),
     Kind("Add", <<Out(1, <<>>), Out(0, <<>>)>>),
     After(0, 1), After(1, 0)}

\* the generator values that are lowered: the values without items, the
\* lists, tuples and dicts of up to MaxItems of them, and the lists, tuples
\* and dicts of one of all those
GenAtoms ==
    {Value("None", 0, <<>>, <<>>), Value("Int", 1, <<>>, <<>>),
     Value("Function", 0, <<>>, <<>>), Value("OpRef", 0, <<>>, <<>>),
     Value("ParamRef", 0, <<>>, <<"p">>)}

GenValues ==
    LET Containers(itemss) ==
            {Value(ty, 0, items, <<>>) :
                ty \in {"List", "Tuple", "Dict"}, items \in itemss}
        flat == GenAtoms
                \cup Containers(UNION {[1..n -> GenAtoms] : n \in 0..MaxItems})
    IN  flat \cup Containers({<<v>> : v \in flat})

\* the kinds of the ops of the plans that are compiled
CompiledKinds ==
    {Kind("ReadFile", <<Lit(StrV(<<"a">>))>>),
     Kind("Print", <<Lit(ListV(<<NoneV, IntV(1)>>))>>),
     Kind("Add", <<Lit(IntV(300)), Lit(IntV(-2))>>),
     Kind("Print", <<Out(0, <<0, -1>>)>>),
     After(0, 1)}

\* the byte strings handed to from_bytes: what to_bytes wrote for the
\* compiled plan, that with a byte appended, with a byte of the magic
\* changed, cut short, written by a build of schema version 4 or 6, and
\* the six bytes of test_invalid_magic
LoadInputs(compiled) ==
    LET bytes == to_bytes(compiled)
    IN  {bytes, bytes \o <<0>>, <<0, 1, 2, 3, 4, 5>>}
        \cup {[bytes EXCEPT ![i] = 255] : i \in {1, 4}}
        \cup {SubSeq(bytes, 1, k) : k \in {0, 3, 4, 7, Len(bytes) - 1}}
        \cup {MAGIC \o serialize("CompiledPlan",
                                 [compiled EXCEPT !.schema_version = v]) :
                 v \in {4, 6}}

----------------------------------------------------------------------------
(* The state machine.                                                      *)

NoReport == [errors |-> <<>>, levels |-> [ok |-> TRUE, levels |-> <<>>, ops |-> <<>>]]
NoDecision == [action |-> PathAction("None", <<>>), result |-> "None"]
NoCall == [call |-> "none", op |-> 0, hash |-> 0, value |-> NoneV]
NoPure == [fn |-> "none"]

\* the threads that share one OpCache
Threads == 1..MaxThreads

\* a thread that has not called insert
NoInsert == [at |-> "idle", op |-> 0, hash |-> 0, value |-> NoneV]

\* Plan::new(), no policy, OpCache::new()
InitWith(pol) ==
    /\ ops = <<>>
    /\ next_id = 0
    /\ phase = "build"
    /\ orig = <<>>
    /\ level = "NotRun"
    /\ policy = pol
    /\ report = NoReport
    /\ decision = NoDecision
    /\ cache = {}
    /\ value_cache = {}
    /\ inserted = {}
    /\ last = NoCall
    /\ issued = <<>>
    /\ hashed = {}
    /\ calls = [t \in Threads |-> NoInsert]
    /\ pure = NoPure

Init == InitWith(DefaultPolicy)

\* plan.add_op(kind, None)
AddOpOf(kinds, max) ==
    /\ phase = "build"
    /\ next_id < max
    /\ \E kind \in kinds :
          ops' = add_op(ops, next_id, kind)
    /\ next_id' = next_id + 1
    /\ issued' = Append(issued, next_id)
    /\ UNCHANGED <<phase, orig, level, policy, report, decision>>
    /\ UNCHANGED cacheVars
    /\ UNCHANGED callVars

AddOp == AddOpOf(PlanKinds, MaxOps)

\* PlanOptimizer::new(opt_level).optimize(plan)
Optimize ==
    /\ phase = "build"
    /\ \E opt_level \in OptLevels :
          /\ ops' = optimize(ops, opt_level)
          /\ level' = opt_level
    /\ orig' = ops
    /\ phase' = "optimized"
    /\ UNCHANGED <<next_id, policy, report, decision>>
    /\ UNCHANGED cacheVars
    /\ UNCHANGED <<issued, hashed, pure>>

Next == AddOp \/ Optimize

Spec == Init /\ [][Next]_vars

\* --- Policy::check on its own ---

InitPolicy == \E pol \in Policies : InitWith(pol)

Check ==
    /\ \E action \in Actions :
          decision' = [action |-> action, result |-> PolicyCheck(policy, action)]
    /\ UNCHANGED <<policy, report>>
    /\ UNCHANGED planVars
    /\ UNCHANGED cacheVars
    /\ UNCHANGED <<issued, hashed, pure>>

NextPolicy == Check

SpecPolicy == InitPolicy /\ [][NextPolicy]_vars

\* --- PlanValidator::validate(&plan, Some(&policy)) ---

AddPolicyOp == AddOpOf(PolicyKinds, MaxPolicyOps)

Validate ==
    /\ phase = "build"
    /\ report' = validate(ops, TRUE, policy)
    /\ phase' = "validated"
    /\ UNCHANGED <<ops, next_id, orig, level, policy, decision>>
    /\ UNCHANGED cacheVars
    /\ UNCHANGED <<issued, hashed, pure>>

NextValidate == AddPolicyOp \/ Validate

SpecValidate == InitPolicy /\ [][NextValidate]_vars

\* --- OpCache ---

\* cache.insert(op_id, value, input_hash)
Insert ==
    /\ Cardinality(inserted) < MaxInserts
    /\ \E op_id \in CacheOps, value \in Values, input_hash \in Hashes :
          /\ cache' = KeyedInsert(cache, op_id, input_hash, value)
          /\ value_cache' = LatestInsert(value_cache, op_id, value)
          /\ inserted' = inserted \cup {<<op_id, input_hash>>}
          /\ last' = [call |-> "insert", op |-> op_id, hash |-> input_hash,
                      value |-> value]
    /\ UNCHANGED planVars
    /\ UNCHANGED policyVars
    /\ UNCHANGED <<issued, hashed, pure>>
    /\ UNCHANGED calls

\* cache.invalidate(op_id) dropping the op's keyed entries as well
Invalidate_BothLayers ==
    /\ \E op_id \in CacheOps :
          /\ value_cache' = LatestInvalidate(value_cache, op_id)
          /\ cache' = {e \in cache : e.op # op_id}
          /\ last' = [call |-> "invalidate", op |-> op_id, hash |-> 0,
                      value |-> NoneV]
    /\ UNCHANGED inserted
    /\ UNCHANGED planVars
    /\ UNCHANGED policyVars
    /\ UNCHANGED <<issued, hashed, pure>>
    /\ UNCHANGED calls

\* cache.invalidate(op_id)
Invalidate ==
    /\ \E op_id \in CacheOps :
          /\ value_cache' = LatestInvalidate(value_cache, op_id)
          /\ last' = [call |-> "invalidate", op |-> op_id, hash |-> 0,
                      value |-> NoneV]
    /\ UNCHANGED <<cache, inserted>>
    /\ UNCHANGED planVars
    /\ UNCHANGED policyVars
    /\ UNCHANGED <<issued, hashed, pure>>
    /\ UNCHANGED calls

\* cache.clear()
Clear ==
    /\ cache' = {}
    /\ value_cache' = {}
    /\ last' = [call |-> "clear", op |-> 0, hash |-> 0, value |-> NoneV]
    /\ UNCHANGED inserted
    /\ UNCHANGED planVars
    /\ UNCHANGED policyVars
    /\ UNCHANGED <<issued, hashed, pure>>
    /\ UNCHANGED calls

\* moka drops an entry of either layer: time-to-live expiry or capacity
Evict ==
    /\ \/ \E e \in cache : cache' = cache \ {e} /\ value_cache' = value_cache
       \/ \E e \in value_cache : value_cache' = value_cache \ {e} /\ cache' = cache
    /\ last' = [call |-> "evict", op |-> 0, hash |-> 0, value |-> NoneV]
    /\ UNCHANGED inserted
    /\ UNCHANGED planVars
    /\ UNCHANGED policyVars
    /\ UNCHANGED <<issued, hashed, pure>>
    /\ UNCHANGED calls

NextCache == Insert \/ Invalidate \/ Clear \/ Evict

SpecCache == Init /\ [][NextCache]_vars

\* --- OpCache::insert called from several threads ---

\* the first statement of insert in one thread:
\* self.cache.insert((op_id, input_hash), value.clone())
InsertCache ==
    /\ \E t \in Threads :
          /\ calls[t].at = "idle"
          /\ \E op_id \in CacheOps, value \in Values, input_hash \in Hashes :
                /\ cache' = KeyedInsert(cache, op_id, input_hash, value)
                /\ inserted' = inserted \cup {<<op_id, input_hash>>}
                /\ calls' = [calls EXCEPT ![t] =
                                [at |-> "value_cache", op |-> op_id,
                                 hash |-> input_hash, value |-> value]]
    /\ UNCHANGED <<value_cache, last>>
    /\ UNCHANGED planVars
    /\ UNCHANGED policyVars
    /\ UNCHANGED <<issued, hashed, pure>>

\* the second statement of insert in that thread, after which the call
\* returns: self.value_cache.insert(op_id, value)
InsertValueCache ==
    /\ \E t \in Threads :
          /\ calls[t].at = "value_cache"
          /\ value_cache' = LatestInsert(value_cache, calls[t].op, calls[t].value)
          /\ last' = [call |-> "insert", op |-> calls[t].op,
                      hash |-> calls[t].hash, value |-> calls[t].value]
          /\ calls' = [calls EXCEPT ![t].at = "returned"]
    /\ UNCHANGED <<cache, inserted>>
    /\ UNCHANGED planVars
    /\ UNCHANGED policyVars
    /\ UNCHANGED <<issued, hashed, pure>>

NextConcurrent == InsertCache \/ InsertValueCache

SpecConcurrent == Init /\ [][NextConcurrent]_vars

\* --- the interpreter's cached execution of an op ---

UpstreamOp == 0
ConsumerOp == 1

\* the upstream op (no operands) is executed and its result recorded in
\* both layers
Produce ==
    /\ \E value \in UpstreamValues :
          /\ cache' = KeyedInsert(cache, UpstreamOp, compute_input_hash(<<>>), value)
          /\ value_cache' = LatestInsert(value_cache, UpstreamOp, value)
          /\ last' = [call |-> "insert", op |-> UpstreamOp,
                      hash |-> compute_input_hash(<<>>), value |-> value]
    /\ UNCHANGED <<inserted, issued, hashed, pure>>
    /\ UNCHANGED planVars
    /\ UNCHANGED policyVars
    /\ UNCHANGED calls

\* the consumer op's execution: its operands are resolved, the input hash
\* is computed over the resolved operands, a hit of the keyed cache is
\* emitted, otherwise the op runs (it yields its last operand) and the
\* result is recorded in both layers
Lookup ==
    /\ Cardinality(hashed) < MaxLookups
    /\ \E inputs \in ConsumerInputs :
          LET found == [k \in 1..Len(inputs) |-> resolve(value_cache, inputs[k])]
              resolved == [k \in 1..Len(inputs) |-> found[k][1]]
              input_hash == compute_input_hash(
                                [k \in 1..Len(inputs) |-> Lit(resolved[k])])
              hit == CacheGet(cache, ConsumerOp, input_hash)
              result == resolved[Len(inputs)]
              emitted == IF hit # <<>> THEN hit[1].value ELSE result
          IN  /\ \A k \in 1..Len(inputs) : found[k] # <<>>
              /\ cache' = IF hit # <<>> THEN cache
                          ELSE KeyedInsert(cache, ConsumerOp, input_hash, result)
              /\ value_cache' = LatestInsert(value_cache, ConsumerOp, emitted)
              /\ last' = [call |-> "lookup", op |-> ConsumerOp,
                          hash |-> input_hash, value |-> emitted]
              /\ hashed' = hashed \cup
                    {[inputs |-> inputs, resolved |-> resolved,
                      input_hash |-> input_hash, emitted |-> emitted,
                      result |-> result]}
    /\ UNCHANGED <<inserted, issued, pure>>
    /\ UNCHANGED planVars
    /\ UNCHANGED policyVars
    /\ UNCHANGED calls

NextHash == Produce \/ Lookup

SpecHash == Init /\ [][NextHash]_vars

\* --- Plan::add_op and Plan::remove_ops in any order ---

AddBuildOp == AddOpOf(BuildKinds, MaxOps)

RemoveOps_ResetNextId ==
    /\ phase = "build"
    /\ \E should_remove \in (SUBSET OpIds(ops)) \ {{}} :
          /\ ops' = remove_ops(ops, should_remove)
          /\ next_id' = Len(ops')
    /\ orig' = ops
    /\ UNCHANGED <<phase, level, issued>>
    /\ UNCHANGED policyVars
    /\ UNCHANGED cacheVars
    /\ UNCHANGED callVars

\* plan.remove_ops(should_remove), for a predicate that holds of some op;
\* orig keeps the plan as it was before the call
RemoveOps ==
    /\ phase = "build"
    /\ \E should_remove \in (SUBSET OpIds(ops)) \ {{}} :
          ops' = remove_ops(ops, should_remove)
    /\ orig' = ops
    /\ UNCHANGED <<next_id, phase, level, issued>>
    /\ UNCHANGED policyVars
    /\ UNCHANGED cacheVars
    /\ UNCHANGED callVars

\* --- Plan::compute_levels on plans of independent and dependent ops ---

\* the kinds of test_compute_levels and test_parallel_detection,
\* and a kind with inputs on two levels
LevelKinds ==
    {Kind("ReadFile", <<Lit(StrV(<<"a">>))>>),
     Kind("JsonDecode", <<Out(0, <<>>)>>),
     Kind("Mul", <<Out(1, <<>>), Lit(IntV(3))>>),
     Kind("Add", <<Out(0, <<>>), Out(1, <<>>)>>)}

AddLevelOp == AddOpOf(LevelKinds, MaxLevelOps)

\* the plan is validated at the end: report.levels is compute_levels()
SpecLevels == Init /\ [][AddLevelOp \/ Validate]_vars

\* the plan that was built and pruned is validated at the end
NextPlan == AddBuildOp \/ RemoveOps \/ Validate

SpecPlan == Init /\ [][NextPlan]_vars

\* --- evaluate_pure on integer literals ---

\* self.evaluate_pure(&kind) for an arithmetic kind whose operands are Int
\* literals (Neg has one operand); the function is pure, so one call in a
\* behaviour shows every call
FoldInt ==
    /\ pure.fn = "none"
    /\ \E name \in {"Add", "Sub", "Mul", "FloorDiv", "Mod", "Neg"} :
       \E a \in IntMin..IntMax :
       \E b \in IF name = "Neg" THEN {0} ELSE IntMin..IntMax :
       \E result \in evaluate_pure_int(name, a, b) :
          pure' = [fn |-> "evaluate_pure", name |-> name, a |-> a, b |-> b,
                   output |-> result]
    /\ UNCHANGED <<issued, hashed>>
    /\ UNCHANGED planVars
    /\ UNCHANGED policyVars
    /\ UNCHANGED cacheVars

NextFold == FoldInt

SpecFold == Init /\ [][NextFold]_vars

\* --- the generator lowers a value ---

\* value.to_schema_value(); the function is pure, so one call in a
\* behaviour shows every call
Lower ==
    /\ pure.fn = "none"
    /\ \E v \in GenValues :
          pure' = [fn |-> "to_schema_value", input |-> v,
                   output |-> to_schema_value(v)]
    /\ UNCHANGED <<issued, hashed>>
    /\ UNCHANGED planVars
    /\ UNCHANGED policyVars
    /\ UNCHANGED cacheVars

NextLower == Lower

SpecLower == Init /\ [][NextLower]_vars

\* --- ExecutionContext expands a configured string ---

\* the environments: A and AB, each defined or not, with a value of its own
Envs ==
    {{[key |-> k, value |-> f[k]] : k \in keys} :
        keys \in SUBSET {<<"A">>, <<"A", "B">>},
        f \in [{<<"A">>, <<"A", "B">>} -> {<<"x">>, <<"y">>}]}

\* the strings: every string of up to MaxLen of the characters $, A and B,
\* and the two braced references
ExpandStrings ==
    UNION {[1..n -> {"$", "A", "B"}] : n \in 0..MaxLen}
    \cup {<<"$", "{", "A", "}">>, <<"$", "{", "A", "B", "}">>}

\* context.resolve_config_var(key) on a variable holding the string: the
\* HashMap is visited in one of its orders
Expand ==
    /\ pure.fn = "none"
    /\ \E str \in ExpandStrings, env_vars \in Envs :
          \E entries \in Iterations(env_vars) :
              pure' = [fn |-> "expand_env_in_string", input |-> str,
                       env_vars |-> env_vars,
                       output |-> expand_env_in_string(str, entries)]
    /\ UNCHANGED <<issued, hashed>>
    /\ UNCHANGED planVars
    /\ UNCHANGED policyVars
    /\ UNCHANGED cacheVars

SpecExpand == Init /\ [][Expand]_vars

\* --- CompiledPlan: to_bytes and from_bytes of a plan that was built ---

\* the plan is built before CompiledPlan::new takes it (by value)
AddCompiledOp == pure.fn = "none" /\ AddOpOf(CompiledKinds, MaxCompiledOps)

\* the compiled plans CompiledPlan::new makes of the plan: one source hash,
\* one reading of the clock, every OptLevel, without and with metadata
Compiled ==
    {CompiledPlanNew([ops |-> ops, next_id |-> next_id], <<"a", "b">>,
                     70000, opt_level, metadata) :
        opt_level \in {0, 1, 2},
        metadata \in {<<>>, <<[source_file |-> <<>>,
                               source_content |-> <<<<"s", "t">>>>]>>}}

\* CompiledPlan::new(plan, ..).to_bytes()
ToBytes ==
    /\ \E compiled \in Compiled :
          pure' = [fn |-> "to_bytes", compiled |-> compiled,
                   bytes |-> to_bytes(compiled), result |-> LoadErr("", 0, 0)]
    /\ UNCHANGED <<issued, hashed>>
    /\ UNCHANGED planVars
    /\ UNCHANGED policyVars
    /\ UNCHANGED cacheVars

\* CompiledPlan::from_bytes(bytes), of bytes made from what to_bytes wrote
FromBytes ==
    /\ pure.fn = "to_bytes"
    /\ \E bytes \in LoadInputs(pure.compiled) :
          pure' = [fn |-> "from_bytes", compiled |-> pure.compiled,
                   bytes |-> bytes, result |-> from_bytes(bytes)]
    /\ UNCHANGED <<issued, hashed>>
    /\ UNCHANGED planVars
    /\ UNCHANGED policyVars
    /\ UNCHANGED cacheVars

NextCompiled == AddCompiledOp \/ ToBytes \/ FromBytes

SpecCompiled == Init /\ [][NextCompiled]_vars

----------------------------------------------------------------------------
(* Notions the claims are stated with, defined without the code's          *)
(* algorithms.                                                             *)

\* the ops a plan's op with this id lists as inputs
InputsOf(plan, id) ==
    UNION {Range(plan[i].inputs) : i \in {j \in 1..Len(plan) : plan[j].id = id}}

\* every id reachable from the set S along inputs, S included
RECURSIVE InputClosure(_, _)
InputClosure(plan, S) ==
    LET T == S \cup UNION {InputsOf(plan, id) : id \in S}
    IN  IF T = S THEN S ELSE InputClosure(plan, T)

\* the inputs relation of the plan contains a cycle
HasCycle(plan) ==
    \E id \in OpIds(plan) : id \in InputClosure(plan, InputsOf(plan, id))

\* the ops that can be scheduled: those whose inputs are all ops of the plan
\* that can be scheduled before them
RECURSIVE Schedulable(_, _)
Schedulable(plan, S) ==
    LET T == S \cup {id \in OpIds(plan) : InputsOf(plan, id) \subseteq S}
    IN  IF T = S THEN S ELSE Schedulable(plan, T)

\* the indexes of the levels that list id
LevelsOf(levels, id) == {i \in 1..Len(levels) : Contains(levels[i], id)}

\* the number of places at which id is listed in the levels
Occurrences(levels, id) ==
    Cardinality({<<i, k>> \in (1..Len(levels)) \X (0..MaxOps + 1) :
                    k \in 1..Len(levels[i]) /\ levels[i][k] = id})

\* every OpOutput operand of every op names an op of the plan
RefsResolved(plan) ==
    \A i \in 1..Len(plan) :
        Range(RefOps(collect_value_refs(plan[i].kind))) \subseteq OpIds(plan)

\* the ops that can be evaluated from literal operands, directly or once
\* their operands have been folded, with their values: the least fixed
\* point, every op looked at against the same table
RECURSIVE Evaluable(_, _)
Evaluable(plan, F) ==
    LET now == {i \in 1..Len(plan) :
                   /\ plan[i].id \notin DOMAIN F
                   /\ can_fold(plan[i].kind)
                   /\ evaluate_pure(substitute_folded_refs(plan[i].kind, F)) # <<>>}
        G == [id \in DOMAIN F \cup {plan[i].id : i \in now} |->
                IF id \in DOMAIN F THEN F[id]
                ELSE evaluate_pure(substitute_folded_refs(
                        get_op(plan, id).kind, F))[1]]
    IN  IF now = {} THEN F ELSE Evaluable(plan, G)

Errors(result) == Range(result.errors)

\* what an error reports: an UnknownOpReference its (from, to), a
\* CycleDetected that there is a cycle
Reported(result) ==
    {IF e.type = "CycleDetected" THEN Error("CycleDetected", 0, 0, <<>>) ELSE e :
        e \in Errors(result)}

\* the plan of the folding scenario: 1 + 2, then * 3, then print
ChainPlan ==
    add_op(add_op(add_op(<<>>, 0, Kind("Add", <<Lit(IntV(1)), Lit(IntV(2))>>)),
                  1, Kind("Mul", <<Out(0, <<>>), Lit(IntV(3))>>)),
           2, Kind("Print", <<Out(1, <<>>)>>))

----------------------------------------------------------------------------
(* The claims.                                                             *)

\* C1: validating the optimized plan reports no error that validating the
\* plan handed to the optimizer does not report; a plan that validates with
\* no error still validates with no error after optimization.
C1_OptimizePreservesValidity ==
    phase = "optimized" =>
        /\ Reported(validate(ops, FALSE, policy))
              \subseteq Reported(validate(orig, FALSE, policy))
        /\ is_valid(validate(orig, FALSE, policy))
              => is_valid(validate(ops, FALSE, policy))

\* C2: for a plan whose inputs relation has no cycle, compute_levels
\* succeeds and its levels list every op id of the plan exactly once and no
\* other id.
C2_LevelsCoverAcyclicPlan ==
    ~HasCycle(ops) =>
        LET lv == compute_levels(ops)
        IN  /\ lv.ok
            /\ \A id \in OpIds(ops) : Occurrences(lv.levels, id) = 1
            /\ \A i \in 1..Len(lv.levels) : Range(lv.levels[i]) \subseteq OpIds(ops)

\* C3: in the levels compute_levels returns, every op listed in an op's
\* inputs lies in a strictly earlier level than the op.
C3_InputsInEarlierLevels ==
    LET lv == compute_levels(ops)
    IN  lv.ok =>
            \A i \in 1..Len(ops) : \A input \in Range(ops[i].inputs) :
                \E a \in LevelsOf(lv.levels, input) :
                    \A b \in LevelsOf(lv.levels, ops[i].id) : a < b

C3_Witness ==
    /\ compute_levels(ops).ok
    /\ Len(compute_levels(ops).levels) = 3
    /\ \E i \in 1..Len(ops) : Len(ops[i].inputs) = 2

\* C4: every op of a side-effect kind that is in the plan before Aggressive
\* optimization is in the plan after it, under the same id.
C4_SideEffectsSurviveAggressive ==
    (phase = "optimized" /\ level = "Aggressive") =>
        \A i \in 1..Len(orig) :
            has_side_effects(orig[i].kind) =>
                \E j \in 1..Len(ops) :
                    /\ ops[j].id = orig[i].id
                    /\ ops[j].kind.name = orig[i].kind.name

C4_Witness ==
    /\ phase = "optimized" /\ level = "Aggressive"
    /\ Len(ops) < Len(orig)
    /\ \E i \in 1..Len(orig) :
          /\ orig[i].kind.name = "Print"
          /\ orig[i].id \notin UNION {Range(orig[j].inputs) : j \in 1..Len(orig)}
          /\ orig[i].id \in OpIds(ops)

\* C5: after Basic optimization exactly the ops that can be evaluated from
\* literal operands (directly or once their operands are folded) are gone,
\* every remaining op holds its operands with each path-less OpOutput of a
\* removed op replaced by the literal folded value, and the chain 1 + 2,
\* * 3, print is left as the single op Print(Literal(Int(9))).
C5_BasicFoldsEvaluableOps ==
    (phase = "optimized" /\ level = "Basic") =>
        LET F == Evaluable(orig, <<>>)
            Kept(op) == op.id \notin DOMAIN F
            kept == SelectSeq(orig, Kept)
        IN  /\ Len(ops) = Len(kept)
            /\ \A k \in 1..Len(kept) :
                  /\ ops[k].id = kept[k].id
                  /\ ops[k].kind = substitute_folded_refs(kept[k].kind, F)
            /\ orig = ChainPlan =>
                  /\ Len(ops) = 1
                  /\ ops[1].kind = Kind("Print", <<Lit(IntV(9))>>)

C5_Witness ==
    /\ phase = "optimized" /\ level = "Basic"
    /\ orig = ChainPlan
    /\ Len(ops) = 1
    /\ ops[1].kind.refs = <<Lit(IntV(9))>>

\* C6: after Basic optimization of a plan whose OpOutput operands all name
\* ops of the plan, every OpOutput operand of a remaining op, with an empty
\* or a non-empty path, names an op that is still in the plan.
C6_NoOutputOfRemovedOp ==
    (phase = "optimized" /\ level = "Basic" /\ RefsResolved(orig)) =>
        RefsResolved(ops)

\* C7: if the inputs relation has a cycle, compute_levels returns CycleError
\* and CycleError.ops is the set of ops that were never scheduled (those
\* left with a non-zero in-degree); validate reports it as CycleDetected;
\* for op0.inputs = [op1], op1.inputs = [op0] the set is {op0, op1}.
C7_CycleErrorOps ==
    HasCycle(ops) =>
        LET lv == compute_levels(ops)
        IN  /\ ~lv.ok
            /\ Range(lv.ops) = OpIds(ops) \ Schedulable(ops, {})
            /\ Error("CycleDetected", 0, 0, lv.ops)
                  \in Errors(validate(ops, FALSE, policy))
            /\ (/\ Len(ops) = 2
                /\ ops[1].id = 0 /\ ops[1].inputs = <<1>>
                /\ ops[2].id = 1 /\ ops[2].inputs = <<0>>)
                  => Range(lv.ops) = {0, 1}

C7_Witness ==
    /\ phase = "build"
    /\ Len(ops) = 2
    /\ ops[1].id = 0 /\ ops[1].inputs = <<1>>
    /\ ops[2].id = 1 /\ ops[2].inputs = <<0>>
    /\ ~compute_levels(ops).ok
    /\ Range(compute_levels(ops).ops) = {0, 1}

----------------------------------------------------------------------------
(* Policy decisions, stated on the action's own fields.                    *)

\* some pattern of the list matches the value as a glob
AnyGlob(patterns, value) ==
    \E i \in 1..Len(patterns) : PatternMatches(patterns[i], value)

\* a `host:port` pattern matches a host and a port field by field: `*`
\* matches any field, a host pattern matches as a glob, a port by its digits
AddressPatternMatches(pattern, host, port) ==
    \E i \in 1..Len(pattern) :
        /\ pattern[i] = ":"
        /\ \A j \in (i + 1)..Len(pattern) : pattern[j] # ":"
        /\ LET pattern_host == SubSeq(pattern, 1, i - 1)
               pattern_port == SubSeq(pattern, i + 1, Len(pattern))
           IN  /\ pattern_host = <<"*">> \/ PatternMatches(pattern_host, host)
               /\ pattern_port = <<"*">> \/ pattern_port = ToDecimal(port)

AnyAddress(patterns, host, port) ==
    \E i \in 1..Len(patterns) : AddressPatternMatches(patterns[i], host, port)

\* some entry of the list names the command, in full or by its file name
AnyCommand(entries, command) ==
    \E i \in 1..Len(entries) :
        \/ entries[i] = command
        \/ <<entries[i]>> = FileName(command)

\* some pattern of the given lists matches a target of the action; for a
\* copy or a move the source is a read target and the destination a write
\* target, for a watch every watched pattern is a read target
TargetMatch(action, read, write, http, tcp, udp, unix, commands, env_vars) ==
    CASE action.type \in ReadActions -> AnyGlob(read, action.a)
      [] action.type \in WriteActions -> AnyGlob(write, action.a)
      [] action.type \in CopyActions ->
            AnyGlob(read, action.a) \/ AnyGlob(write, action.b)
      [] action.type = "HttpRequest" -> AnyGlob(http, action.a)
      [] action.type \in TcpActions -> AnyAddress(tcp, action.a, action.port)
      [] action.type \in UdpActions -> AnyAddress(udp, action.a, action.port)
      [] action.type \in UnixActions -> AnyGlob(unix, action.a)
      [] action.type = "Exec" -> AnyCommand(commands, action.a)
      [] action.type = "EnvGet" -> AnyGlob(env_vars, action.a)
      [] action.type = "WatchFiles" ->
            \E i \in 1..Len(action.list) : AnyGlob(read, action.list[i])

DenyMatch(pol, action) ==
    TargetMatch(action, pol.deny_read, pol.deny_write, pol.deny_http,
                pol.deny_tcp, pol.deny_udp, pol.deny_unix, pol.deny_commands,
                pol.deny_vars)

AllowMatch(pol, action) ==
    TargetMatch(action, pol.allow_read, pol.allow_write, pol.allow_http,
                pol.allow_tcp, pol.allow_udp, pol.allow_unix,
                pol.allow_commands, pol.allow_vars)

\* C8: Policy.check returns Deny whenever a deny pattern of the action's
\* category matches its target, also when an allow pattern matches too;
\* it returns Allow only when no deny pattern matches and an allow pattern
\* matches; in every other case it returns NoMatch.
C8_DenyWinsThenAllow ==
    decision.result # "None" =>
        LET action == decision.action
            result == decision.result
        IN  /\ result \in {"Deny", "Allow", "NoMatch"}
            /\ DenyMatch(policy, action) => result = "Deny"
            /\ result = "Allow" =>
                  ~DenyMatch(policy, action) /\ AllowMatch(policy, action)
            /\ (~DenyMatch(policy, action) /\ result # "Allow") => result = "NoMatch"

----------------------------------------------------------------------------
(* Policy denial at validation.                                            *)

\* the string (integer) a literal operand holds, if it holds one
StringOperand(kind, i) ==
    IF i <= Len(kind.refs) /\ kind.refs[i].tag = "Literal"
       /\ kind.refs[i].val.ty = "String"
    THEN <<kind.refs[i].val.s>> ELSE <<>>

PortOperand(kind, i) ==
    IF i <= Len(kind.refs) /\ kind.refs[i].tag = "Literal"
       /\ kind.refs[i].val.ty = "Int" /\ kind.refs[i].val.n \in 0..65535
    THEN <<kind.refs[i].val.n>> ELSE <<>>

\* the Action variant that stands for an op kind
ActionNameOf(name) ==
    CASE name = "Mkdir" -> "CreateDir"
      [] name = "Rmdir" -> "DeleteDir"
      [] OTHER -> name

\* the action an op with literal operands performs: what it reads, writes,
\* connects to, runs or looks up
ActionOfOp(kind) ==
    LET first == StringOperand(kind, 1)
        second == StringOperand(kind, 2)
        port == PortOperand(kind, 2)
        type == ActionNameOf(kind.name)
    IN  CASE type \in ReadActions \cup WriteActions \cup UnixActions
                      \cup {"Exec", "EnvGet"} ->
                IF first = <<>> THEN <<>> ELSE <<PathAction(type, first[1])>>
          [] type \in CopyActions ->
                IF first = <<>> \/ second = <<>> THEN <<>>
                ELSE <<Action(type, first[1], second[1], 0, <<>>)>>
          [] type = "HttpRequest" ->
                IF first = <<>> \/ second = <<>> THEN <<>>
                ELSE <<PathAction(type, second[1])>>
          [] type \in TcpActions \cup UdpActions ->
                IF first = <<>> \/ port = <<>> THEN <<>>
                ELSE <<Action(type, first[1], <<>>, port[1], <<>>)>>
          [] OTHER -> <<>>

\* the op's action is one the policy decides as Deny
DeniedByPolicy(pol, op) ==
    /\ requires_approval(op.kind)
    /\ ActionOfOp(op.kind) # <<>>
    /\ PolicyCheck(pol, ActionOfOp(op.kind)[1]) = "Deny"

PolicyDeniedFor(result, op) ==
    Error("PolicyDenied", op.id, 0, <<>>) \in Errors(result)

\* C9: validate with a policy reports PolicyDenied for every
\* approval-requiring op with literal operands whose action the policy
\* decides as Deny, and the plan is then invalid; so for WriteFile with the
\* literal path /etc/passwd under deny_write = ["/etc/*"].
C9_DeniedOpIsReported ==
    phase = "validated" =>
        \A i \in 1..Len(ops) :
            /\ DeniedByPolicy(policy, ops[i]) =>
                  PolicyDeniedFor(report, ops[i]) /\ ~is_valid(report)
            /\ (/\ ops[i].kind.name = "WriteFile"
                /\ ops[i].kind.refs[1] = Lit(StrV(EtcPasswd))
                /\ policy.deny_write = <<EtcStar>>) =>
                  PolicyDeniedFor(report, ops[i]) /\ ~is_valid(report)

----------------------------------------------------------------------------
(* The cache right after an insert.                                        *)

\* the hashes a lookup may carry: those the model inserts, and one more
LookupHashes == Hashes \cup {0}

\* C10: immediately after insert(op, v, h), get(op, h) returns v with hash
\* h and get_value(op) returns v, while get(op, h2) for a hash h2 never
\* inserted for op returns nothing.
C10_InsertThenGet ==
    last.call = "insert" =>
        /\ CacheGet(cache, last.op, last.hash)
              = <<[value |-> last.value, input_hash |-> last.hash]>>
        /\ CacheGetValue(value_cache, last.op) = <<last.value>>
        /\ \A h2 \in LookupHashes :
              <<last.op, h2>> \notin inserted =>
                  CacheGet(cache, last.op, h2) = <<>>

\* an insert for an op that already holds another op's and another hash's
\* entries, with a hash never inserted for it left over
C10_Witness ==
    /\ last.call = "insert"
    /\ Cardinality(cache) >= 2
    /\ \E e \in cache : e.op # last.op
    /\ \E h2 \in Hashes : <<last.op, h2>> \notin inserted
    /\ CacheGet(cache, last.op, last.hash)
          = <<[value |-> last.value, input_hash |-> last.hash]>>

----------------------------------------------------------------------------
(* The cache across an invalidate.                                         *)

\* C11: invalidate(op) removes only the latest-layer entry of op:
\* afterwards get_value(op) returns nothing, get(op, h) returns what it
\* returned before for every h, and the entries of every other op in both
\* layers are unchanged.
C11_InvalidateLatestOnly ==
    [][last'.call = "invalidate" =>
          /\ CacheGetValue(value_cache', last'.op) = <<>>
          /\ \A h \in LookupHashes :
                CacheGet(cache', last'.op, h) = CacheGet(cache, last'.op, h)
          /\ \A other \in CacheOps \ {last'.op} :
                /\ CacheGetValue(value_cache', other)
                      = CacheGetValue(value_cache, other)
                /\ \A h \in LookupHashes :
                      CacheGet(cache', other, h) = CacheGet(cache, other, h)
          /\ cache' = cache
          /\ {e \in value_cache' : e.op # last'.op}
                = {e \in value_cache : e.op # last'.op}]_vars

\* an invalidate of an op with a keyed entry, another op holding a latest
\* value
C11_Witness ==
    /\ last.call = "invalidate"
    /\ CacheGetValue(value_cache, last.op) = <<>>
    /\ \E h \in Hashes : CacheGet(cache, last.op, h) # <<>>
    /\ \E e \in value_cache : e.op # last.op

----------------------------------------------------------------------------
(* The input hash as cache key.                                            *)

\* C12: the input hash is computed over the resolved values of the op's
\* operands: when an operand that refers to another op's output resolves
\* to a different value than before, the computed input hash is different,
\* and the changed upstream result is not answered from the keyed cache
\* (what the op emits is what it yields on the values resolved now).
C12_HashFollowsResolvedValues ==
    /\ \A a \in hashed : \A b \in hashed :
          (/\ a.inputs = b.inputs
           /\ \E k \in 1..Len(a.inputs) : a.inputs[k].tag = "OpOutput"
           /\ a.resolved # b.resolved)
              => a.input_hash # b.input_hash
    /\ \A a \in hashed : a.emitted = a.result

----------------------------------------------------------------------------
(* C13.  from_bytes answers InvalidMagic for every input whose first four  *)
(* bytes are not 42 50 00 01, an input of fewer than four bytes included;  *)
(* it answers SchemaMismatch for a well-formed payload of another schema   *)
(* version; it returns a plan only when the magic and the version are both *)
(* right.                                                                  *)
C13_MagicThenSchemaVersion ==
    pure.fn = "from_bytes" =>
        LET bytes == pure.bytes
            result == pure.result
            magic_ok ==
                /\ Len(bytes) >= 4
                /\ <<bytes[1], bytes[2], bytes[3], bytes[4]>> = <<66, 80, 0, 1>>
        IN  /\ ~magic_ok =>
                   result.tag = "Err" /\ result.err = "InvalidMagic"
            /\ \A v \in 0..9 :
                   (/\ v # 5
                    /\ bytes = <<66, 80, 0, 1>>
                               \o serialize("CompiledPlan",
                                     [pure.compiled EXCEPT !.schema_version = v]))
                   => result = LoadErr("SchemaMismatch", 5, v)
            /\ result.tag = "Ok" =>
                   /\ magic_ok
                   /\ Len(bytes) >= 8
                   /\ <<bytes[5], bytes[6], bytes[7], bytes[8]>> = <<5, 0, 0, 0>>
                   /\ result.compiled.schema_version = 5

\* a payload of two ops written under schema version 4 was refused
C13_Witness ==
    /\ pure.fn = "from_bytes"
    /\ Len(pure.compiled.plan.ops) = 2
    /\ pure.bytes = <<66, 80, 0, 1>>
                    \o serialize("CompiledPlan",
                          [pure.compiled EXCEPT !.schema_version = 4])
    /\ pure.result = LoadErr("SchemaMismatch", 5, 4)

----------------------------------------------------------------------------
(* C14.  from_bytes(to_bytes(c)) succeeds and gives a compiled plan with   *)
(* the schema version, the source hash, the optimization level and the     *)
(* plan of c.                                                              *)
C14_BytesRoundTrip ==
    (pure.fn = "from_bytes" /\ pure.bytes = to_bytes(pure.compiled)) =>
        /\ pure.result.tag = "Ok"
        /\ pure.result.compiled.schema_version = pure.compiled.schema_version
        /\ pure.result.compiled.source_hash = pure.compiled.source_hash
        /\ optimization_level(pure.result.compiled)
              = optimization_level(pure.compiled)
        /\ pure.result.compiled.plan = pure.compiled.plan

\* a plan of two ops, one with an input and a negative literal among
\* them, with metadata, went through to_bytes and from_bytes
C14_Witness ==
    /\ pure.fn = "from_bytes"
    /\ pure.bytes = to_bytes(pure.compiled)
    /\ pure.result.tag = "Ok"
    /\ pure.compiled.metadata # <<>>
    /\ pure.compiled.source_hash # <<>>
    /\ Len(pure.compiled.plan.ops) = 2
    /\ pure.compiled.plan.ops[1].kind.name = "Add"
    /\ pure.compiled.plan.ops[2].inputs = <<0>>

----------------------------------------------------------------------------
\* the number of places of the sequence s that hold x
CountIn(s, x) == Cardinality({i \in 1..Len(s) : s[i] = x})

\* the op ids a kind names, through an OpOutput operand or directly
NamedOps(kind) ==
    {kind.refs[k].op : k \in {j \in 1..Len(kind.refs) :
                                 kind.refs[j].tag = "OpOutput"}}
    \cup Range(kind.op_refs)

(* C15.  add_op gives the new op as inputs exactly the op ids its kind     *)
(* names, through its ValueRefs and its op references, each once.          *)
C15_InputsAreNamedOpsOnce ==
    [][issued' # issued =>
          LET op == ops'[Len(ops')]
          IN  /\ op.id = next_id
              /\ Range(op.inputs) = NamedOps(op.kind)
              /\ \A id \in NamedOps(op.kind) : CountIn(op.inputs, id) = 1]_vars

\* json_decode of read_file has inputs [op0], and so has an op that names
\* op0 through two operands
C15_Witness ==
    /\ Len(ops) = 3
    /\ ops[1].kind.name = "ReadFile" /\ ops[1].id = 0
    /\ ops[2].kind.name = "JsonDecode" /\ ops[2].inputs = <<0>>
    /\ ops[3].kind = Kind("Add", <<Out(0, <<>>), Out(0, <<0>>)>>)
    /\ ops[3].inputs = <<0>>

----------------------------------------------------------------------------
(* C16.  When After { dependency d, value v } was added while v was in the *)
(* plan, v lists d among its inputs exactly once, and the levels           *)
(* compute_levels returns, when it returns levels, have v strictly later   *)
(* than d.  (Ops keep their insertion order, so v was in the plan when the *)
(* After op was added exactly if v stands before it.)                      *)
C16_AfterOrdersValueBehindDependency ==
    \A k \in 1..Len(ops) : \A i \in 1..(k - 1) :
        (ops[k].kind.name = "After" /\ ops[i].id = ops[k].kind.op_refs[2]) =>
            LET d == ops[k].kind.op_refs[1]
                v == ops[i].id
                lv == compute_levels(ops)
            IN  /\ CountIn(ops[i].inputs, d) = 1
                /\ lv.ok =>
                       \E a \in LevelsOf(lv.levels, d) :
                           \A b \in LevelsOf(lv.levels, v) : a < b

\* After{1, 0} was added to a plan of two independent ops: op0 now waits
\* for op1
C16_Witness ==
    /\ Len(ops) = 3
    /\ ops[1].id = 0 /\ ops[2].id = 1 /\ ops[2].inputs = <<>>
    /\ ops[3].kind = After(1, 0)
    /\ ops[1].inputs = <<1>>
    /\ compute_levels(ops).ok
    /\ LevelsOf(compute_levels(ops).levels, 1) = {1}
    /\ LevelsOf(compute_levels(ops).levels, 0) = {2}

----------------------------------------------------------------------------
(* C17.  Over any sequence of add_op and remove_ops calls, add_op returns  *)
(* 0, 1, 2, ... in call order, no two ops of the plan share an id, and an  *)
(* id that was removed is never given to a later op.                       *)
C17_IdsAreSequentialAndNeverReused ==
    /\ \A k \in 1..Len(issued) : issued[k] = k - 1
    /\ \A i, j \in 1..Len(ops) : ops[i].id = ops[j].id => i = j
    /\ \A i \in 1..Len(ops) : CountIn(issued, ops[i].id) = 1

\* op0 was removed and an op was added after that: it is op2
C17_Witness ==
    /\ issued = <<0, 1, 2>>
    /\ OpIds(orig) = {0, 1}
    /\ OpIds(ops) = {1, 2}

----------------------------------------------------------------------------
\* the op ids an op refers to: its inputs and the ops of its OpOutput operands
ReferredBy(op) ==
    Range(op.inputs)
    \cup {op.kind.refs[k].op : k \in {j \in 1..Len(op.kind.refs) :
                                       op.kind.refs[j].tag = "OpOutput"}}

(* C18.  validate reports UnknownOpReference { from, to } for every op     *)
(* `from` that has an inputs entry or a ValueRef naming an id `to` that is *)
(* not in the plan, and reports no UnknownOpReference when every id        *)
(* referred to is in the plan.                                             *)
C18_UnknownReferencesReported ==
    phase = "validated" =>
        /\ \A i \in 1..Len(ops) : \A to \in ReferredBy(ops[i]) :
               to \notin OpIds(ops) =>
                   Error("UnknownOpReference", ops[i].id, to, <<>>)
                       \in Errors(report)
        /\ (\A i \in 1..Len(ops) : ReferredBy(ops[i]) \subseteq OpIds(ops)) =>
               \A e \in Errors(report) : e.type # "UnknownOpReference"

\* a plan whose one op is json_decode of an op that is not there, and a
\* plan left with a dangling After dependency, were validated
C18_Witness ==
    /\ phase = "validated"
    /\ Len(ops) = 2
    /\ ops[1].kind.name = "JsonDecode" /\ 0 \notin OpIds(ops)
    /\ ops[2].kind.name = "After"
    /\ Error("UnknownOpReference", ops[1].id, 0, <<>>) \in Errors(report)
    /\ Error("UnknownOpReference", ops[2].id, 0, <<>>) \in Errors(report)

----------------------------------------------------------------------------
\* the dynamic markers a generator value holds at any depth
RECURSIVE MarkersOf(_)
MarkersOf(v) ==
    IF v.ty \in {"OpRef", "ParamRef"} THEN {<<v.ty, v.n, v.s>>}
    ELSE UNION {MarkersOf(v.items[k]) : k \in 1..Len(v.items)}

\* the dynamic markers a SchemaValue holds at any depth (a Literal holds a
\* RecordedValue, which has none)
RECURSIVE SchemaMarkersOf(_)
SchemaMarkersOf(sv) ==
    CASE sv.tag = "OpRef" -> {<<"OpRef", sv.val, <<>>>>}
      [] sv.tag = "ParamRef" -> {<<"ParamRef", 0, sv.val>>}
      [] sv.tag = "List" ->
            UNION {SchemaMarkersOf(sv.items[k]) : k \in 1..Len(sv.items)}
      [] OTHER -> {}

(* C19.  Lowering a generator value to a SchemaValue keeps its dynamic     *)
(* structure: the result is a Literal only if the value holds no OpRef or  *)
(* ParamRef at any depth, and every dynamic marker held inside a list,     *)
(* tuple or dict is present in the lowered value.                          *)
C19_LoweringKeepsDynamicMarkers ==
    pure.fn = "to_schema_value" =>
        /\ pure.output.tag = "Literal" => MarkersOf(pure.input) = {}
        /\ MarkersOf(pure.input) \subseteq SchemaMarkersOf(pure.output)

----------------------------------------------------------------------------
\* the integer of the width congruent to n modulo 2^IntBits
TwosComplement(n) ==
    CHOOSE w \in IntMin..IntMax : (w - n) % (2 ^ IntBits) = 0

\* the quotient of a by b truncated toward zero: the remainder is smaller
\* than b in magnitude and is zero or has the sign of a
TruncatedQuotient(a, b) ==
    CHOOSE q \in (2 * IntMin)..(2 * IntMax) :
        LET r == a - q * b
        IN  /\ (IF r < 0 THEN 0 - r ELSE r) < (IF b < 0 THEN 0 - b ELSE b)
            /\ r = 0 \/ (r < 0) = (a < 0)

(* C20.  For all integer literal operands, folding Add, Sub, Mul, Neg, and *)
(* FloorDiv and Mod with a non-zero divisor, gives the result of the       *)
(* operation wrapped to two's complement, FloorDiv and Mod dividing with   *)
(* truncation toward zero; folding never fails on overflow.                *)
C20_IntegerFoldingWraps ==
    (pure.fn = "evaluate_pure"
       /\ (pure.name \in {"FloorDiv", "Mod"} => pure.b # 0)) =>
        LET a == pure.a
            b == pure.b
            exact == CASE pure.name = "Add" -> a + b
                       [] pure.name = "Sub" -> a - b
                       [] pure.name = "Mul" -> a * b
                       [] pure.name = "Neg" -> 0 - a
                       [] pure.name = "FloorDiv" -> TruncatedQuotient(a, b)
                       [] pure.name = "Mod" -> a - b * TruncatedQuotient(a, b)
        IN  pure.output = [tag |-> "Some", n |-> TwosComplement(exact)]

----------------------------------------------------------------------------
(* Dead-code elimination and control-flow ops.                             *)

\* the ops whose execution has an observable effect: the ops of a
\* side-effect kind, and the ForEach and IfBlock ops whose body holds one
RunsSideEffects(kind) ==
    \/ has_side_effects(kind)
    \/ /\ kind.name \in {"ForEach", "IfBlock"}
       /\ \E k \in 1..Len(kind.body) : has_side_effects(kind.body[k].kind)

\* C21: Aggressive optimization never removes a ForEach or IfBlock op whose
\* sub-plan body contains a side-effect op, whether or not another op
\* consumes its output.
C21_SideEffectBodiesSurviveAggressive ==
    (phase = "optimized" /\ level = "Aggressive") =>
        \A i \in 1..Len(orig) :
            (orig[i].kind.name \in {"ForEach", "IfBlock"}
               /\ RunsSideEffects(orig[i].kind)) =>
                orig[i].id \in OpIds(ops)

\* every id reachable from the set S along the inputs and the OpOutput
\* operands of the plan's ops, S included
RECURSIVE DependencyClosure(_, _)
DependencyClosure(plan, S) ==
    LET T == S \cup UNION {ReferredBy(plan[i]) :
                              i \in {j \in 1..Len(plan) : plan[j].id \in S}}
    IN  IF T = S THEN S ELSE DependencyClosure(plan, T)

(* C22.  After Aggressive optimization the plan holds, of the ops constant *)
(* folding left, exactly the ops of a side-effect kind and the ops they    *)
(* depend on, directly or transitively, through inputs or OpOutput         *)
(* operands, unchanged and in order; no retained op names, in its inputs   *)
(* or its operands, an op that dead-code elimination removed.              *)
C22_ExactlyTheLiveOpsRemain ==
    (phase = "optimized" /\ level = "Aggressive") =>
        LET folded == constant_fold(orig)
            effects == {folded[i].id : i \in {j \in 1..Len(folded) :
                            folded[j].kind.name \in SideEffectKinds}}
            live == DependencyClosure(folded, effects)
            IsLive(op) == op.id \in live
        IN  /\ ops = SelectSeq(folded, IsLive)
            /\ \A i \in 1..Len(ops) :
                   ReferredBy(ops[i]) \cap (OpIds(folded) \ OpIds(ops)) = {}

\* a plan from which dead-code elimination removed an op and kept an op
\* that has no side effect but is depended on
C22_Witness ==
    /\ phase = "optimized" /\ level = "Aggressive"
    /\ OpIds(constant_fold(orig)) \ OpIds(ops) # {}
    /\ \E i \in 1..Len(ops) : ops[i].kind.name \notin SideEffectKinds

----------------------------------------------------------------------------
(* C23.  validate reports CycleDetected, and compute_levels fails, only    *)
(* for a plan whose inputs relation contains a cycle: a plan without a     *)
(* cycle, dangling inputs or not, gets no CycleDetected and its levels are *)
(* computed.                                                               *)
C23_CycleDetectedOnlyForCycles ==
    (phase = "validated" /\ ~HasCycle(ops)) =>
        /\ \A e \in Errors(report) : e.type # "CycleDetected"
        /\ report.levels.ok

----------------------------------------------------------------------------
(* C24.  The encoding fed to the input hash is unambiguous: two different  *)
(* lists of input values never give the same encoded sequence, the lists   *)
(* [[], 1] and [[1]] included.                                             *)
C24_EncodingIsInjective ==
    \A a \in hashed : \A b \in hashed :
        a.resolved # b.resolved => a.input_hash # b.input_hash

----------------------------------------------------------------------------
(* C25.  Whatever the interleaving of two concurrent insert calls on one   *)
(* OpCache for the same (op_id, input_hash) with different values, once    *)
(* both have returned get(op_id, input_hash) and get_value(op_id) return   *)
(* the same value.                                                         *)
C25_ConcurrentInsertsAgree ==
    \A t \in Threads : \A u \in Threads :
        (/\ calls[t].at = "returned" /\ calls[u].at = "returned"
         /\ calls[t].op = calls[u].op /\ calls[t].hash = calls[u].hash
         /\ calls[t].value # calls[u].value
         /\ \A w \in Threads \ {t, u} : calls[w].at = "idle") =>
            /\ CacheGet(cache, calls[t].op, calls[t].hash) # <<>>
            /\ CacheGetValue(value_cache, calls[t].op) # <<>>
            /\ CacheGet(cache, calls[t].op, calls[t].hash)[1].value
                  = CacheGetValue(value_cache, calls[t].op)[1]

----------------------------------------------------------------------------
(* C26.  Every op kind the policy has a rule category for, the Unix-socket *)
(* connect and listen ops (deny_unix) and EnvGet (deny_vars) included, is  *)
(* checked at validation: an op with literal operands whose action a deny  *)
(* pattern of its category makes Policy::check deny is reported as         *)
(* PolicyDenied.                                                           *)
C26_EveryRuleCategoryIsChecked ==
    phase = "validated" =>
        \A i \in 1..Len(ops) : \A k \in 1..Len(ActionOfOp(ops[i].kind)) :
            LET action == ActionOfOp(ops[i].kind)[k]
            IN  PolicyCheck(policy, action) = "Deny" =>
                    \E e \in Errors(report) :
                        e.type = "PolicyDenied" /\ e.from = ops[i].id

----------------------------------------------------------------------------
(* The levels of a plan.                                                   *)

\* the number of the level that lists id, level 0 the first
LevelOf(levels, id) == (CHOOSE i \in LevelsOf(levels, id) : TRUE) - 1

\* the largest number of a set of numbers
Highest(S) == CHOOSE x \in S : \A y \in S : y <= x

(* C27.  compute_levels places each op in the earliest possible level: an  *)
(* op with no inputs in level 0, any other op in the level one past the    *)
(* highest level of its inputs; two independent ReadFile ops give the      *)
(* single level [op0, op1].                                                *)
C27_EarliestLevel ==
    (phase = "validated" /\ report.levels.ok) =>
        LET levels == report.levels.levels
        IN  /\ \A i \in 1..Len(ops) :
                   LevelOf(levels, ops[i].id) =
                       IF ops[i].inputs = <<>> THEN 0
                       ELSE 1 + Highest({LevelOf(levels, input) :
                                           input \in Range(ops[i].inputs)})
            /\ (/\ Len(ops) = 2
                /\ ops[1].kind.name = "ReadFile"
                /\ ops[2].kind.name = "ReadFile") => levels = <<<<0, 1>>>>

\* two independent ReadFile ops share level 0, and an op lies one past the
\* higher of the two different levels of its inputs
C27_Witness ==
    /\ phase = "validated" /\ report.levels.ok
    /\ Len(report.levels.levels) = 3
    /\ \E i \in 1..Len(ops) : \E j \in 1..Len(ops) :
          /\ i # j
          /\ ops[i].kind.name = "ReadFile" /\ ops[j].kind.name = "ReadFile"
          /\ LevelOf(report.levels.levels, ops[i].id) = 0
          /\ LevelOf(report.levels.levels, ops[j].id) = 0
    /\ \E i \in 1..Len(ops) :
          /\ Len(ops[i].inputs) = 2
          /\ LevelOf(report.levels.levels, ops[i].inputs[1]) = 0
          /\ LevelOf(report.levels.levels, ops[i].inputs[2]) = 1
          /\ LevelOf(report.levels.levels, ops[i].id) = 2

(* C28.  Within each level the op ids are in ascending order, so that the  *)
(* levels of a plan are the same whatever order the ready ops were found   *)
(* in.                                                                     *)
C28_LevelsAscending ==
    (phase = "validated" /\ report.levels.ok) =>
        \A i \in 1..Len(report.levels.levels) :
            LET lv == report.levels.levels[i]
            IN  \A a \in 1..Len(lv) : \A b \in 1..Len(lv) :
                    a < b => lv[a] < lv[b]

\* a level whose ops became ready in descending order of id
C28_Witness ==
    /\ phase = "validated" /\ report.levels.ok
    /\ Len(ops) = 4
    /\ ops[3].inputs = <<1>> /\ ops[4].inputs = <<0>>
    /\ report.levels.levels = <<<<0, 1>>, <<2, 3>>>>

----------------------------------------------------------------------------
(* C29.  Expanding a string against the environment gives a result that    *)
(* depends only on the string and on what the environment holds, not on    *)
(* the order its variables are visited in; with A and AB both defined,     *)
(* $AB expands to the value of AB.                                         *)
C29_ExpansionIgnoresVisitOrder ==
    pure.fn = "expand_env_in_string" =>
        /\ \A entries \in Iterations(pure.env_vars) :
               expand_env_in_string(pure.input, entries) = pure.output
        /\ (/\ pure.input = <<"$", "A", "B">>
            /\ \E e \in pure.env_vars : e.key = <<"A">>) =>
               \A e \in pure.env_vars :
                   e.key = <<"A", "B">> => pure.output = e.value

----------------------------------------------------------------------------
(* C30.  Optimization is idempotent: optimizing the optimized plan again   *)
(* at the same level gives the optimized plan, for every plan and every    *)
(* level.                                                                  *)
C30_OptimizeIsIdempotent ==
    phase = "optimized" => optimize(ops, level) = ops

\* an Aggressive run that folded an op into its consumer and removed a dead
\* op, and left ops in the plan
C30_Witness ==
    /\ phase = "optimized" /\ level = "Aggressive"
    /\ Len(constant_fold(orig)) < Len(orig)
    /\ Len(ops) < Len(constant_fold(orig))
    /\ ops # <<>>
    /\ optimize(ops, level) = ops

====
